---- MODULE Spec2Model ----
(***************************************************************************)
(* tonneru: a VPN orchestrator.  The model covers the TUI application      *)
(* object (src/src/app.rs), the tunnel and kill-switch controllers         *)
(* (src/src/vpn), the policy store (src/src/config) and the monitoring     *)
(* daemon (src/src/network/monitor.rs), all driving one privileged helper. *)
(*                                                                         *)
(* Time is counted in half seconds.  An Instant is held as the time that   *)
(* has elapsed since it was taken, which is all the code reads of one      *)
(* (Instant::elapsed).  An async handler is one action; the helper calls   *)
(* it makes are resolved inside the action, each call ending in one of     *)
(* Outcomes, and are written to a trace of events (lastOp.trace) in the    *)
(* order the handler issues them.                                          *)
(***************************************************************************)
EXTENDS Integers, Sequences, FiniteSets, TLC

VARIABLES
    \* the host: what the helper and the kernel hold
    hIface,                 \* live tunnel interface, or NONE
    hKs,                    \* the firewall kill switch is installed
    activeNet,              \* ssid of the attached network, or NONE
    hConfigs,               \* names of the tunnel configs in the helper's directory
    store,                  \* the persisted config file (an AppConfig)
    \* App (src/src/app.rs)
    phase,                  \* "boot" before App::new; then the place in the loop of
                            \* run_app: "poll" (waiting for a key) or "tick" (a key
                            \* was handled, tick() is next)
    popup,
    networks,
    tunnels,
    vpn_status,
    network_rules,
    config,
    kill_switch_enabled,
    pending_change,
    countdown_start,
    countdown_seconds,
    \* history
    lastOp,                 \* the handler run by the last step and its trace
    keys,                   \* key presses handled so far
    changes,                \* per scheduled change, in order of scheduling: whether
                            \* it was replaced or cancelled, and how many times its
                            \* action was run
    waited,                 \* half seconds since the latest schedule_change while
                            \* its change is pending
    \* the daemon: MonitorState (src/src/network/monitor.rs)
    daemon,                 \* "stopped" before start_monitoring, then "running"
    last_network_id,
    last_vpn_connected,
    last_vpn_interface,
    health_check_counter,
    reconnect_attempts,
    last_uptime             \* PowerStateTracker.last_uptime, seconds

worldVars == <<hIface, hKs, activeNet, hConfigs, store>>
appVars == <<phase, popup, networks, tunnels, vpn_status, network_rules, config,
             kill_switch_enabled, pending_change, countdown_start,
             countdown_seconds>>
histVars == <<lastOp, keys, changes, waited>>
monitorVars == <<daemon, last_network_id, last_vpn_connected, last_vpn_interface,
                 health_check_counter, reconnect_attempts, last_uptime>>
vars == <<worldVars, appVars, histVars, monitorVars>>

----------------------------------------------------------------------------
(* Bounds *)

MaxKeys == 2        \* key presses per run
MaxRuleKeys == 4    \* key presses per run of a user who presses only 'r'

----------------------------------------------------------------------------
(* Values *)

NONE == "none"
Tunnels == {"t1", "t2"}
Ssids == <<"cafe", "home">>
Outcomes == {"ok", "refused", "timeout"}
\* sudo either runs the helper, or waits for a password for as long as a handler runs
SudoModes == {"ready", "blocked"}

COUNTDOWN_SECONDS == 4

\* Duration::as_secs of a duration given in half seconds
as_secs(d) == d \div 2

\* Duration::as_millis
as_millis(d) == d * 500

Ev(verb, arg, res) == [verb |-> verb, arg |-> arg, res |-> res]

Indices(s, verb) == {i \in 1..Len(s) : s[i].verb = verb}

----------------------------------------------------------------------------
(* Policy store: src/src/config/mod.rs *)

NetworkRule(id, tunnel, always, never, session) ==
    [identifier |-> id, tunnel_name |-> tunnel, always_vpn |-> always,
     never_vpn |-> never, session_vpn |-> session]

TunnelInfo(name, ks) == [name |-> name, protocol |-> "wireguard", kill_switch |-> ks]

\* AppConfig::save keeps a rule iff its identifier is longer than 5 characters
\* (the modelled identifiers hold no escape character)
SaveKeeps(r) == r.identifier # "" /\ Len(r.identifier) > 5

\* the file content AppConfig::save writes for the in-memory config c
Saved(c) ==
    LET kept == SelectSeq(c.network_rules, SaveKeeps)
        norm(r) == IF r.tunnel_name = "" THEN [r EXCEPT !.tunnel_name = NONE] ELSE r
    IN  [c EXCEPT !.network_rules = [i \in 1..Len(kept) |-> norm(kept[i])]]

\* AppConfig::load of a file that parses
Load(file) == file

\* position of the first element of s satisfying Test, 0 if there is none
FirstIdx(s, Test(_)) ==
    IF \E i \in 1..Len(s) : Test(s[i])
    THEN CHOOSE i \in 1..Len(s) : Test(s[i]) /\ \A j \in 1..(i-1) : ~Test(s[j])
    ELSE 0

\* App::get_tunnel_info(name).map(|t| t.kill_switch).unwrap_or(false)
TunnelKs(c, name) ==
    LET is(t) == t.name = name
        i == FirstIdx(c.known_tunnels, is)
    IN  IF i = 0 THEN FALSE ELSE c.known_tunnels[i].kill_switch

----------------------------------------------------------------------------
(* Privileged-op client and controllers: src/src/vpn                        *)
(* An execution context x carries what a handler reads and writes while it *)
(* runs: the host (iface, ks), the App fields it assigns (flag, cfg), the  *)
(* file (store), the helper's directory (configs), the result of the last  *)
(* call (res, out, ok, en) and the                                         *)
(* trace.  Every operator maps a context to the set of contexts the call   *)
(* can end in.                                                             *)

\* what the helper does for a verb when it runs to exit 0
HelperRuns(x, verb, arg) ==
    CASE verb = "connect"           -> [x EXCEPT !.iface = arg, !.out = ""]
      [] verb = "disconnect"        -> [x EXCEPT !.iface = NONE, !.out = ""]
      [] verb = "killswitch-on"     -> [x EXCEPT !.ks = TRUE, !.out = ""]
      [] verb = "killswitch-off"    -> [x EXCEPT !.ks = FALSE, !.out = ""]
      [] verb = "killswitch-status" ->
            [x EXCEPT !.out = IF x.ks THEN "enabled" ELSE "disabled"]
      [] verb = "config-list"       -> [x EXCEPT !.listing = x.configs, !.out = ""]
      [] verb = "config-delete"     -> [x EXCEPT !.configs = @ \ {arg}, !.out = ""]
      [] OTHER                      -> [x EXCEPT !.out = ""]

\* how a run of the helper can exit: it cannot bring up a tunnel it has no
\* config for
HelperExits(verb, arg) ==
    IF verb = "connect" /\ arg \notin hConfigs THEN {"refused"} ELSE {"ok", "refused"}

\* run_helper: the helper runs and exits 0 (ok) or non-zero (refused), or the
\* call exceeds SUDO_TIMEOUT because sudo is blocked.  The trace records the
\* call with its argument, or with what killswitch-status printed
run_helper(x, verb, arg) ==
    { LET y == IF r = "ok" THEN HelperRuns(x, verb, arg) ELSE [x EXCEPT !.out = ""]
          shown == IF verb = "killswitch-status" /\ r = "ok" THEN y.out ELSE arg
      IN  [y EXCEPT !.res = r, !.trace = Append(@, Ev(verb, shown, r))]
      : r \in IF x.sudo = "blocked" THEN {"timeout"} ELSE HelperExits(verb, arg) }

\* wireguard::get_status: the helper's status verb, else `ip link`; both report
\* the live interface
get_status(x) == [connected |-> x.iface # NONE, interface |-> x.iface]

\* wireguard::disconnect: best effort, always Ok
disconnect(x) == { [y EXCEPT !.ok = TRUE] : y \in run_helper(x, "disconnect", NONE) }

\* wireguard::connect: disconnect first, then the connect verb
connect(x, profile_name) ==
    UNION { { [z EXCEPT !.ok = (z.res = "ok")] : z \in run_helper(y, "connect", profile_name) }
            : y \in disconnect(x) }

\* killswitch::is_enabled
is_enabled(x) ==
    { [y EXCEPT !.en = (y.res # "timeout" /\ y.out = "enabled")]
      : y \in run_helper(x, "killswitch-status", NONE) }

\* killswitch::enable
enable(x) ==
    LET status == get_status(x)
        interface == IF status.interface = NONE THEN "wg0" ELSE status.interface
    IN  { [y EXCEPT !.ok = (y.res = "ok")] : y \in run_helper(x, "killswitch-on", interface) }

\* the return of disable(): the trace records the result and what the helper holds
DisableReturns(x, ok) ==
    [x EXCEPT !.ok = ok,
              !.trace = Append(@, Ev("disable()", IF x.ks THEN "enabled" ELSE "disabled",
                                     IF ok THEN "ok" ELSE "err"))]

\* the call of disable(), in the trace
DisableCalled(x) == [x EXCEPT !.trace = Append(@, Ev("disable", NONE, "called"))]

\* disable() failing when its first killswitch-off exits non-zero
disable_FailsOnExit(x) ==
    UNION { UNION {
        IF a.res = "refused" THEN { DisableReturns(b, FALSE) }
        ELSE IF ~b.en THEN { DisableReturns(b, TRUE) }
        ELSE UNION { { DisableReturns(d, ~d.en) : d \in is_enabled(c) }
                     : c \in run_helper(b, "killswitch-off", NONE) }
        : b \in is_enabled(a) }
        : a \in run_helper(DisableCalled(x), "killswitch-off", NONE) }

\* killswitch::disable
disable(x) ==
    UNION { UNION {
        IF ~b.en THEN { DisableReturns(b, TRUE) }
        ELSE UNION { { DisableReturns(d, ~d.en) : d \in is_enabled(c) }
                     : c \in run_helper(b, "killswitch-off", NONE) }
        : b \in is_enabled(a) }
        : a \in run_helper(DisableCalled(x), "killswitch-off", NONE) }

----------------------------------------------------------------------------
(* App: src/src/app.rs *)

\* NetworkInfo::identifier of a wifi network
identifier(n) == "wifi:" \o n.ssid

NetworkInfo(ssid, connected) == [name |-> ssid, ssid |-> ssid, connected |-> connected]

\* network::get_networks: connected first, then by name
get_networks(active) ==
    LET all == [i \in 1..Len(Ssids) |-> NetworkInfo(Ssids[i], Ssids[i] = active)]
        isOn(n) == n.connected
        isOff(n) == ~n.connected
    IN  SelectSeq(all, isOn) \o SelectSeq(all, isOff)

\* every tunnel name that occurs, in the order of String::cmp
ProfileNames == <<"t1", "t2", "t3">>

\* the names of S as sort_by(|a, b| a.name.cmp(&b.name)) leaves them
SortedNames(S) == LET in(n) == n \in S IN SelectSeq(ProfileNames, in)

\* list_profiles pruning whatever config-list returned
list_profiles_PrunesOnFailure(x) ==
    { LET live == {a.iface} \ {NONE}
          valid_configs == (IF a.res = "ok" THEN a.listing ELSE {}) \cup live
          cfg == Load(a.store)
          keeps(t) == t.protocol # "wireguard" \/ t.name \in valid_configs
          known == SelectSeq(cfg.known_tunnels, keeps)
          wireguard == {known[i].name :
                          i \in {j \in 1..Len(known) : known[j].protocol = "wireguard"}}
      IN  [a EXCEPT !.store = IF Len(known) # Len(cfg.known_tunnels)
                              THEN Saved([cfg EXCEPT !.known_tunnels = known])
                              ELSE @,
                    !.profiles = SortedNames(wireguard \cup valid_configs)]
      : a \in run_helper(x, "config-list", NONE) }

\* wireguard::list_profiles: the profile names, sorted, in x.profiles; the
\* persisted tunnel list is pruned in the file when config-list succeeded
list_profiles(x) ==
    { LET could_read_config_dir == a.res = "ok"
          live == {a.iface} \ {NONE}
          valid_configs == (IF could_read_config_dir THEN a.listing ELSE {}) \cup live
          cfg == Load(a.store)
          keeps(t) == t.protocol # "wireguard" \/ t.name \in valid_configs
          known == IF could_read_config_dir THEN SelectSeq(cfg.known_tunnels, keeps)
                   ELSE cfg.known_tunnels
          wireguard == {known[i].name :
                          i \in {j \in 1..Len(known) : known[j].protocol = "wireguard"}}
      IN  [a EXCEPT !.store = IF Len(known) # Len(cfg.known_tunnels)
                              THEN Saved([cfg EXCEPT !.known_tunnels = known])
                              ELSE @,
                    !.profiles = SortedNames(wireguard \cup valid_configs)]
      : a \in run_helper(x, "config-list", NONE) }

\* App::refresh: self.tunnels and self.vpn_status
refresh(x) == { [y EXCEPT !.vs = get_status(y)] : y \in list_profiles(x) }

\* the context a handler starts in
Ctx(sudo) ==
    [sudo |-> sudo, iface |-> hIface, ks |-> hKs, store |-> store, flag |-> kill_switch_enabled,
     cfg |-> config, vs |-> vpn_status, profiles |-> tunnels, listing |-> {},
     configs |-> hConfigs,
     res |-> "ok", out |-> "", ok |-> TRUE, en |-> FALSE, trace |-> <<>>]

\* self.kill_switch_enabled = b
SetFlag(x, b) ==
    [x EXCEPT !.flag = b,
              !.trace = Append(@, Ev("flag", IF b THEN "true" ELSE "false", "set"))]

\* App::set_status
set_status(x, msg) == [x EXCEPT !.trace = Append(@, Ev("set_status", msg, "set"))]

\* self.config.save()
SaveConfig(x) == [x EXCEPT !.store = Saved(x.cfg)]

\* App::ensure_tunnel_info + App::set_tunnel_kill_switch
set_tunnel_kill_switch(x, name, enabled) ==
    LET is(t) == t.name = name
        known == IF FirstIdx(x.cfg.known_tunnels, is) = 0
                 THEN Append(x.cfg.known_tunnels, TunnelInfo(name, FALSE))
                 ELSE x.cfg.known_tunnels
        i == FirstIdx(known, is)
    IN  SaveConfig([x EXCEPT !.cfg.known_tunnels = [known EXCEPT ![i].kill_switch = enabled]])

\* after connect returned Ok: persist last_connected, then apply the tunnel's
\* kill switch setting
ConnectedArm(y, tunnel) ==
    LET y1 == SaveConfig([y EXCEPT !.cfg.last_connected = tunnel])
    IN  IF TunnelKs(y1.cfg, tunnel)
        THEN { IF z.ok THEN set_status(SetFlag(z, TRUE), "Connected (kill switch on)")
                       ELSE set_status(z, "Connected")
               : z \in enable(y1) }
        ELSE { set_status(y1, "Connected") }

\* a variant that arms the switch whatever connect returned
AfterConnect_Arms(y, tunnel) == ConnectedArm(y, tunnel)

\* `match connect(tunnel).await` in the arbiter
AfterConnect(y, tunnel) ==
    IF y.ok THEN ConnectedArm(y, tunnel) ELSE { set_status(y, "Error") }

\* `let _ = disable().await; self.kill_switch_enabled = false;` when the flag is set
DisableIfArmed(x) ==
    IF x.flag THEN { SetFlag(y, FALSE) : y \in disable(x) } ELSE { x }

\* PendingAction::Connect
ApplyConnect(x, tunnel) ==
    IF tunnel = NONE THEN { x }
    ELSE UNION { AfterConnect(y, tunnel) : y \in connect(set_status(x, "Connecting"), tunnel) }

\* PendingAction::Disconnect
ApplyDisconnect(x) ==
    UNION { { set_status(z, "Disconnected") : z \in disconnect(y) }
            : y \in DisableIfArmed(set_status(x, "Disconnecting")) }

\* a variant that brings the old tunnel down before it disables the switch
ApplyReconnect_DisconnectFirst(x, tunnel) ==
    IF tunnel = NONE THEN { x }
    ELSE UNION { UNION { UNION { AfterConnect(c, tunnel) : c \in connect(y, tunnel) }
                         : y \in DisableIfArmed(d) }
                 : d \in disconnect(set_status(x, "Switching")) }

\* PendingAction::Reconnect
ApplyReconnect(x, tunnel) ==
    IF tunnel = NONE THEN { x }
    ELSE UNION { UNION { UNION { AfterConnect(c, tunnel) : c \in connect(d, tunnel) }
                         : d \in disconnect(y) }
                 : y \in DisableIfArmed(set_status(x, "Switching")) }

\* persisting the switch after KillSwitchOn / KillSwitchOff succeeded
PersistKs(x, on) ==
    IF x.vs.interface # NONE
    THEN set_tunnel_kill_switch(x, x.vs.interface, on)
    ELSE SaveConfig([x EXCEPT !.cfg.kill_switch = on])

\* a variant that sets the flag and persists it whatever enable() returned
ApplyKillSwitchOn_Regardless(x) ==
    { set_status(PersistKs(SetFlag(y, TRUE), TRUE), "Kill switch enabled")
      : y \in enable(set_status(x, "Enabling kill switch")) }

\* PendingAction::KillSwitchOn
ApplyKillSwitchOn(x) ==
    { IF y.ok THEN set_status(PersistKs(SetFlag(y, TRUE), TRUE), "Kill switch enabled")
              ELSE set_status(y, "Error")
      : y \in enable(set_status(x, "Enabling kill switch")) }

\* PendingAction::KillSwitchOff
ApplyKillSwitchOff(x) ==
    { IF y.ok THEN set_status(PersistKs(SetFlag(y, FALSE), FALSE), "Kill switch disabled")
              ELSE set_status(y, "Error")
      : y \in disable(set_status(x, "Disabling kill switch")) }

\* the match of App::apply_pending_change
ApplyAction(x, change) ==
    CASE change.action = "Connect"       -> ApplyConnect(x, change.tunnel_name)
      [] change.action = "Disconnect"    -> ApplyDisconnect(x)
      [] change.action = "Reconnect"     -> ApplyReconnect(x, change.tunnel_name)
      [] change.action = "KillSwitchOn"  -> ApplyKillSwitchOn(x)
      [] change.action = "KillSwitchOff" -> ApplyKillSwitchOff(x)

\* Option<PendingChange> and Option<Instant>
NoChange == [network_id |-> "", tunnel_name |-> NONE, action |-> "None", id |-> 0]
NoInstant == 0 - 1
\* Instant::now(): nothing has elapsed since
InstantNow == 0
is_some(change) == change.action # "None"

PendingChange(id, network_id, tunnel_name, action) ==
    [network_id |-> network_id, tunnel_name |-> tunnel_name, action |-> action, id |-> id]

\* a variant that lets a countdown that is running run on
schedule_change_KeepsTimer(change, t) ==
    [pending_change |-> change,
     countdown_start |-> IF countdown_start # NoInstant THEN countdown_start ELSE t,
     countdown_seconds |-> COUNTDOWN_SECONDS]

\* a variant that fills the slot and starts no countdown
schedule_change_NoTimer(change, t) ==
    [pending_change |-> change, countdown_start |-> NoInstant,
     countdown_seconds |-> COUNTDOWN_SECONDS]

\* App::schedule_change at instant t: the slot, the timer and the display value
schedule_change(change, t) ==
    [pending_change |-> change, countdown_start |-> t,
     countdown_seconds |-> COUNTDOWN_SECONDS]

\* a variant that stops the countdown and leaves the slot as it is
cancel_pending_change_KeepsSlot ==
    [pending_change |-> pending_change, countdown_start |-> NoInstant,
     countdown_seconds |-> 0]

\* a variant that leaves the display value as it is
cancel_pending_change_KeepsSeconds ==
    [pending_change |-> NoChange, countdown_start |-> NoInstant,
     countdown_seconds |-> countdown_seconds]

\* App::cancel_pending_change
cancel_pending_change ==
    [pending_change |-> NoChange, countdown_start |-> NoInstant, countdown_seconds |-> 0]

\* a variant that is over one second early
Remaining_Early(start) ==
    IF as_secs(start) + 1 >= COUNTDOWN_SECONDS THEN 0
    ELSE COUNTDOWN_SECONDS - as_secs(start)

\* tick: COUNTDOWN_SECONDS.saturating_sub(start.elapsed().as_secs())
Remaining(start) ==
    IF as_secs(start) >= COUNTDOWN_SECONDS THEN 0
    ELSE COUNTDOWN_SECONDS - as_secs(start)

\* App::use_tunnel_now on the selected tunnel; ok = FALSE is the early return
\* of `connect(..).await?`
use_tunnel_now(x, tunnel_name) ==
    IF x.vs.connected /\ x.vs.interface = tunnel_name
    THEN UNION { { set_status(z, "Disconnected") : z \in disconnect(y) }
                 : y \in DisableIfArmed(x) }
    ELSE LET pre == IF x.vs.connected
                    THEN UNION { disconnect(y) : y \in DisableIfArmed(x) }
                    ELSE { x }
         IN  UNION { UNION { IF c.ok
                             THEN { [z EXCEPT !.ok = TRUE] : z \in ConnectedArm(c, tunnel_name) }
                             ELSE { c }
                             : c \in connect(d, tunnel_name) }
                     : d \in pre }

\* the rule of a network in a rule list: its position, 0 if it has none
RuleIdx(rules, id) == LET is(r) == r.identifier = id IN FirstIdx(rules, is)

\* rules.retain(|r| r.identifier != id)
WithoutRule(rules, id) == LET other(r) == r.identifier # id IN SelectSeq(rules, other)

\* a variant whose last arm keeps the Session rule
next_rule_KeepsSession(rules, n) ==
    LET id == identifier(n)
        i == RuleIdx(rules, id)
        current_tunnel == IF i = 0 THEN NONE ELSE rules[i].tunnel_name
        first == IF Len(tunnels) > 0 THEN tunnels[1] ELSE NONE
    IN  CASE i = 0 ->
               [rules |-> Append(rules, NetworkRule(id, first, TRUE, FALSE, FALSE)),
                action |-> IF first # NONE THEN "Connect" ELSE "None"]
          [] i # 0 /\ rules[i].always_vpn ->
               [rules |-> Append(WithoutRule(rules, id),
                                 NetworkRule(id, current_tunnel, FALSE, TRUE, FALSE)),
                action |-> "Disconnect"]
          [] i # 0 /\ ~rules[i].always_vpn /\ rules[i].never_vpn ->
               [rules |-> Append(WithoutRule(rules, id),
                                 NetworkRule(id, current_tunnel, FALSE, FALSE, TRUE)),
                action |-> IF current_tunnel # NONE THEN "Connect" ELSE "None"]
          [] OTHER ->
               [rules |-> rules, action |-> "Disconnect"]

\* a variant that takes the last tunnel of the list for a new rule
next_rule_LastTunnel(rules, n) ==
    LET id == identifier(n)
        i == RuleIdx(rules, id)
        rest == WithoutRule(rules, id)
        current_tunnel == IF i = 0 THEN NONE ELSE rules[i].tunnel_name
        last == IF Len(tunnels) > 0 THEN tunnels[Len(tunnels)] ELSE NONE
    IN  CASE i = 0 ->
               [rules |-> Append(rest, NetworkRule(id, last, TRUE, FALSE, FALSE)),
                action |-> IF last # NONE THEN "Connect" ELSE "None"]
          [] i # 0 /\ rules[i].always_vpn ->
               [rules |-> Append(rest, NetworkRule(id, current_tunnel, FALSE, TRUE, FALSE)),
                action |-> "Disconnect"]
          [] i # 0 /\ ~rules[i].always_vpn /\ rules[i].never_vpn ->
               [rules |-> Append(rest, NetworkRule(id, current_tunnel, FALSE, FALSE, TRUE)),
                action |-> IF current_tunnel # NONE THEN "Connect" ELSE "None"]
          [] OTHER ->
               [rules |-> rest, action |-> "Disconnect"]

\* the match of App::cycle_tunnel_rule on the rule of network n: the new rule
\* list and the action that goes with the new rule
next_rule(rules, n) ==
    LET id == identifier(n)
        i == RuleIdx(rules, id)
        rest == WithoutRule(rules, id)
        current_tunnel == IF i = 0 THEN NONE ELSE rules[i].tunnel_name
        first == IF Len(tunnels) > 0 THEN tunnels[1] ELSE NONE
    IN  CASE i = 0 ->
               [rules |-> Append(rest, NetworkRule(id, first, TRUE, FALSE, FALSE)),
                action |-> IF first # NONE THEN "Connect" ELSE "None"]
          [] i # 0 /\ rules[i].always_vpn ->
               [rules |-> Append(rest, NetworkRule(id, current_tunnel, FALSE, TRUE, FALSE)),
                action |-> "Disconnect"]
          [] i # 0 /\ ~rules[i].always_vpn /\ rules[i].never_vpn ->
               [rules |-> Append(rest, NetworkRule(id, current_tunnel, FALSE, FALSE, TRUE)),
                action |-> IF current_tunnel # NONE THEN "Connect" ELSE "None"]
          [] OTHER ->
               [rules |-> rest, action |-> "Disconnect"]

\* a variant that schedules the action whether or not the network is active
cycle_tunnel_rule_AnyNetwork(rules, n) ==
    [rules |-> next_rule(rules, n).rules, action |-> next_rule(rules, n).action]

\* App::cycle_tunnel_rule on network n: the new rule list and the action to
\* schedule, which there is only for the active network
cycle_tunnel_rule(rules, n) ==
    LET is_active == n.connected
    IN  [rules |-> next_rule(rules, n).rules,
         action |-> IF is_active THEN next_rule(rules, n).action ELSE "None"]

\* a variant that pushes the new rule and keeps the old one
cycle_network_tunnel_KeepsOld(rules, n) ==
    LET id == identifier(n)
        i == RuleIdx(rules, id)
        name == IF i = 0 THEN NONE ELSE rules[i].tunnel_name
        named(t) == t = name
        idx == FirstIdx(tunnels, named)
        next == IF idx = 0 THEN 1 ELSE (idx % Len(tunnels)) + 1
        always == IF i = 0 THEN TRUE ELSE rules[i].always_vpn
        never == IF i = 0 THEN FALSE ELSE rules[i].never_vpn
        session == IF i = 0 THEN FALSE ELSE rules[i].session_vpn
    IN  [rules |-> Append(rules, NetworkRule(id, tunnels[next], always, never, session)),
         action |-> IF always \/ session THEN "Reconnect" ELSE "None",
         tunnel |-> tunnels[next]]

\* a variant that asks for a Reconnect whatever the mode of the rule
cycle_network_tunnel_AnyMode(rules, n) ==
    LET id == identifier(n)
        i == RuleIdx(rules, id)
        name == IF i = 0 THEN NONE ELSE rules[i].tunnel_name
        named(t) == t = name
        idx == FirstIdx(tunnels, named)
        next == IF idx = 0 THEN 1 ELSE (idx % Len(tunnels)) + 1
        always == IF i = 0 THEN TRUE ELSE rules[i].always_vpn
        never == IF i = 0 THEN FALSE ELSE rules[i].never_vpn
        session == IF i = 0 THEN FALSE ELSE rules[i].session_vpn
    IN  [rules |-> Append(WithoutRule(rules, id),
                          NetworkRule(id, tunnels[next], always, never, session)),
         action |-> "Reconnect",
         tunnel |-> tunnels[next]]

\* App::cycle_network_tunnel on network n (tunnels is not empty)
cycle_network_tunnel(rules, n) ==
    LET id == identifier(n)
        i == RuleIdx(rules, id)
        name == IF i = 0 THEN NONE ELSE rules[i].tunnel_name
        named(t) == t = name
        idx == FirstIdx(tunnels, named)
        next == IF idx = 0 THEN 1 ELSE (idx % Len(tunnels)) + 1
        always == IF i = 0 THEN TRUE ELSE rules[i].always_vpn
        never == IF i = 0 THEN FALSE ELSE rules[i].never_vpn
        session == IF i = 0 THEN FALSE ELSE rules[i].session_vpn
    IN  [rules |-> Append(WithoutRule(rules, id),
                          NetworkRule(id, tunnels[next], always, never, session)),
         action |-> IF always \/ session THEN "Reconnect" ELSE "None",
         tunnel |-> tunnels[next]]

\* App::new after the fields are built: the kill switch restore, then the
\* auto-reconnect to the last tunnel
app_new(x) ==
    LET restore(y) ==
            IF y.en THEN { SetFlag(y, TRUE) }
            ELSE IF y.vs.connected /\ y.vs.interface # NONE /\ TunnelKs(y.cfg, y.vs.interface)
                 THEN { IF z.ok THEN SetFlag(z, TRUE) ELSE z : z \in enable(y) }
                 ELSE { y }
        last == x.cfg.last_connected
        named(t) == t = last
        reconnect(y) ==
            IF ~y.vs.connected /\ y.cfg.auto_reconnect /\ last # NONE
               /\ FirstIdx(y.profiles, named) # 0
            THEN UNION { IF c.ok
                         THEN LET c1 == [c EXCEPT !.vs = get_status(c)]
                              IN  IF TunnelKs(c1.cfg, last)
                                  THEN { IF z.ok THEN SetFlag(z, TRUE) ELSE z : z \in enable(c1) }
                                  ELSE { c1 }
                         ELSE { c }
                         : c \in connect(y, last) }
            ELSE { y }
    IN  UNION { UNION { reconnect(r) : r \in restore(y) } : y \in is_enabled(x) }

----------------------------------------------------------------------------
(* History *)

\* the mode of the rule a rule list holds for an identifier
RuleKind(rules, id) ==
    LET i == RuleIdx(rules, id)
    IN  IF i = 0 THEN "None"
        ELSE IF rules[i].always_vpn THEN "Always"
        ELSE IF rules[i].never_vpn THEN "Never"
        ELSE "Session"

\* the key a step handled in the Networks section: the selected network, whether
\* it is the active one, and the mode of its rule before the press
NoKey == [name |-> "", network |-> "", active |-> FALSE, was |-> "None"]
Key(name, n) ==
    [name |-> name, network |-> identifier(n), active |-> n.connected,
     was |-> RuleKind(network_rules, identifier(n))]

Op(name, change, x) ==
    [op |-> name, action |-> change.action, tunnel |-> change.tunnel_name,
     id |-> change.id, waited |-> IF waited = NoInstant THEN 0 ELSE waited,
     preIface |-> hIface, preKs |-> hKs,
     preFlag |-> kill_switch_enabled, preStatus |-> vpn_status,
     tunnelKs |-> TunnelKs(config, change.tunnel_name), key |-> NoKey, trace |-> x.trace]

\* a step that runs no handler of interest
Idle ==
    [op |-> "idle", action |-> "None", tunnel |-> NONE, id |-> 0, waited |-> 0,
     preIface |-> NONE, preKs |-> FALSE, preFlag |-> FALSE,
     preStatus |-> [connected |-> FALSE, interface |-> NONE], tunnelKs |-> FALSE,
     key |-> NoKey, trace |-> <<>>]

Scheduled == [why |-> "live", runs |-> 0]

\* the change in the slot, if any, is marked
Mark(why) ==
    IF is_some(pending_change)
    THEN [changes EXCEPT ![pending_change.id].why = why]
    ELSE changes

----------------------------------------------------------------------------
(* The TUI: App::new, then key presses, ticks and the clock *)

\* App::new
AppNew ==
    /\ phase = "boot"
    /\ \E sudo \in SudoModes :
       LET cfg0 == Load(store)
           x0 == [Ctx(sudo) EXCEPT !.cfg = cfg0, !.flag = FALSE]
       IN  \E y \in UNION { app_new(l) : l \in refresh(x0) } :
             /\ phase' = "poll"
             /\ popup' = "None"
             /\ networks' = get_networks(activeNet)
             /\ tunnels' = y.profiles
             /\ vpn_status' = y.vs
             /\ network_rules' = cfg0.network_rules
             /\ config' = y.cfg
             /\ kill_switch_enabled' = y.flag
             /\ pending_change' = NoChange
             /\ countdown_start' = NoInstant
             /\ countdown_seconds' = 0
             /\ hIface' = y.iface
             /\ hKs' = y.ks
             /\ store' = y.store
             /\ lastOp' = Op("new", [NoChange EXCEPT !.tunnel_name = cfg0.last_connected], y)
             /\ UNCHANGED <<activeNet, hConfigs, keys, changes, waited>>

\* the handler's effects on the host and on the App fields a context carries
Commit(y) ==
    /\ hIface' = y.iface
    /\ hKs' = y.ks
    /\ store' = y.store
    /\ config' = y.cfg
    /\ kill_switch_enabled' = y.flag

\* what App::refresh has read, in the context it ended in
Refresh(y) ==
    /\ tunnels' = y.profiles
    /\ vpn_status' = y.vs
    /\ networks' = get_networks(activeNet)

\* App::tick: the countdown, apply_pending_change when it is over, and the
\* status refresh, which is due once a second (refreshDue: a second has passed
\* since the last one)
Tick ==
    /\ phase \in {"poll", "tick"}
    /\ phase' = "poll"
    /\ LET counting == countdown_start # NoInstant
           remaining == Remaining(countdown_start)
           applies == counting /\ remaining = 0 /\ is_some(pending_change)
       IN  \E refreshDue \in BOOLEAN :
           \E y \in (IF applies
                     THEN UNION { UNION { refresh(a) : a \in ApplyAction(Ctx(sudo), pending_change) }
                                  : sudo \in SudoModes }
                     ELSE { Ctx("ready") }) :
             /\ Commit(y)
             /\ pending_change' = IF applies THEN NoChange ELSE pending_change
             /\ countdown_start' = IF applies THEN NoInstant ELSE countdown_start
             /\ countdown_seconds' =
                    IF applies THEN 0
                    ELSE IF counting THEN remaining ELSE countdown_seconds
             /\ IF applies
                THEN Refresh(y)
                ELSE /\ vpn_status' = IF refreshDue THEN get_status(y) ELSE vpn_status
                     /\ UNCHANGED <<tunnels, networks>>
             /\ waited' = IF applies THEN NoInstant ELSE waited
             /\ changes' = IF applies
                           THEN [changes EXCEPT ![pending_change.id].runs = @ + 1]
                           ELSE changes
             /\ lastOp' = IF applies THEN Op("apply", pending_change, y) ELSE Idle
             /\ UNCHANGED <<activeNet, hConfigs, popup, network_rules, keys>>

\* half a second passes while the loop polls; the App reads the clock only
\* while a countdown runs.  The loop polls for 100 ms and then ticks, so
\* tick() has run on the present half second before the next one begins.
Advance ==
    /\ phase = "poll"
    /\ countdown_start # NoInstant
    /\ countdown_seconds = Remaining(countdown_start)
    /\ countdown_start' = countdown_start + 1
    /\ waited' = IF waited = NoInstant THEN NoInstant ELSE waited + 1
    /\ lastOp' = Idle
    /\ UNCHANGED <<worldVars, phase, popup, networks, tunnels, vpn_status, network_rules,
                   config, kill_switch_enabled, pending_change, countdown_seconds,
                   keys, changes>>

\* run_app: a key event is read and handled, tick() follows; n bounds the
\* presses of a run
KeyPressWithin(n) ==
    /\ phase = "poll"
    /\ keys < n
    /\ keys' = keys + 1
    /\ phase' = "tick"

KeyPress == KeyPressWithin(MaxKeys)

\* Esc: closes a popup; else cancels the pending change; else nothing
HandleEsc ==
    /\ IF popup # "None"
       THEN /\ popup' = "None"
            /\ lastOp' = Idle
            /\ UNCHANGED <<pending_change, countdown_start, countdown_seconds, changes,
                           waited>>
       ELSE /\ is_some(pending_change)
            /\ pending_change' = cancel_pending_change.pending_change
            /\ countdown_start' = cancel_pending_change.countdown_start
            /\ countdown_seconds' = cancel_pending_change.countdown_seconds
            /\ changes' = Mark("cancelled")
            /\ waited' = NoInstant
            /\ lastOp' = Op("esc", pending_change,
                            set_status([trace |-> <<>>], "Change cancelled"))
            /\ UNCHANGED popup
    /\ UNCHANGED <<worldVars, networks, tunnels, vpn_status, network_rules,
                   config, kill_switch_enabled>>

KeyEsc == KeyPress /\ HandleEsc

\* '?': the help popup
KeyHelp ==
    /\ KeyPress
    /\ popup = "None"
    /\ popup' = "Help"
    /\ lastOp' = Idle
    /\ UNCHANGED <<worldVars, networks, tunnels, vpn_status, network_rules,
                   config, kill_switch_enabled, pending_change, countdown_start,
                   countdown_seconds, changes, waited>>

\* a handler of key k that ends by scheduling change c (or nothing when c is no
\* change)
Schedule(c, k) ==
    IF is_some(c)
    THEN /\ pending_change' = schedule_change(c, InstantNow).pending_change
         /\ countdown_start' = schedule_change(c, InstantNow).countdown_start
         /\ countdown_seconds' = schedule_change(c, InstantNow).countdown_seconds
         /\ changes' = Append(Mark("replaced"), Scheduled)
         /\ waited' = 0
         /\ lastOp' = [Op("schedule", c, [trace |-> <<>>]) EXCEPT !.key = k]
    ELSE /\ UNCHANGED <<pending_change, countdown_start, countdown_seconds, changes,
                        waited>>
         /\ lastOp' = [Idle EXCEPT !.key = k]

\* 'r' in the Networks section with network i selected: cycle_tunnel_rule
CycleTunnelRule(i) ==
    /\ popup = "None"
    /\ LET n == networks[i]
           r == cycle_tunnel_rule(network_rules, n)
           i2 == RuleIdx(r.rules, identifier(n))
           tunnel_name == IF i2 = 0 THEN NONE ELSE r.rules[i2].tunnel_name
       IN  /\ network_rules' = r.rules
           /\ config' = [config EXCEPT !.network_rules = r.rules]
           /\ store' = Saved(config')
           /\ Schedule(IF r.action # "None"
                       THEN PendingChange(Len(changes) + 1, identifier(n), tunnel_name, r.action)
                       ELSE NoChange,
                       Key("r", n))
    /\ UNCHANGED <<hIface, hKs, activeNet, hConfigs, popup, networks, tunnels,
                   vpn_status, kill_switch_enabled>>

KeyRule(i) == KeyPress /\ CycleTunnelRule(i)

\* 't' in the Networks section with network i selected: cycle_network_tunnel
CycleNetworkTunnel(i) ==
    /\ popup = "None"
    /\ Len(tunnels) > 0
    /\ LET n == networks[i]
           r == cycle_network_tunnel(network_rules, n)
       IN  /\ network_rules' = r.rules
           /\ config' = [config EXCEPT !.network_rules = r.rules]
           /\ store' = Saved(config')
           /\ Schedule(IF n.connected /\ r.action # "None"
                       THEN PendingChange(Len(changes) + 1, identifier(n), r.tunnel, r.action)
                       ELSE NoChange,
                       Key("t", n))
    /\ UNCHANGED <<hIface, hKs, activeNet, hConfigs, popup, networks, tunnels,
                   vpn_status, kill_switch_enabled>>

KeyTunnel(i) == KeyPress /\ CycleNetworkTunnel(i)

\* Space / Enter / 'k' in the KillSwitch section: toggle_kill_switch
ToggleKillSwitch ==
    /\ popup = "None"
    /\ Schedule(PendingChange(Len(changes) + 1, "", NONE,
                              IF ~kill_switch_enabled THEN "KillSwitchOn" ELSE "KillSwitchOff"),
                NoKey)
    /\ UNCHANGED <<worldVars, popup, networks, tunnels, vpn_status, network_rules,
                   config, kill_switch_enabled>>

KeyKillSwitch == KeyPress /\ ToggleKillSwitch

\* Space / Enter in the Tunnels section with tunnel i selected: use_tunnel_now;
\* an Err return skips the refresh and run_app shows it
KeyUseTunnel(i) ==
    /\ KeyPress
    /\ popup = "None"
    /\ \E sudo \in SudoModes :
       \E y \in UNION { IF a.ok THEN refresh(a) ELSE { a }
                        : a \in use_tunnel_now(Ctx(sudo), tunnels[i]) } :
         /\ Commit(y)
         /\ IF y.ok THEN Refresh(y) ELSE UNCHANGED <<tunnels, vpn_status, networks>>
         /\ lastOp' = Op("use_tunnel_now", [NoChange EXCEPT !.tunnel_name = tunnels[i]],
                         IF y.ok THEN y ELSE set_status(y, "Error"))
    /\ UNCHANGED <<activeNet, hConfigs, popup, network_rules, pending_change,
                   countdown_start, countdown_seconds, changes, waited>>

\* 'R': App::refresh
KeyRefresh ==
    /\ KeyPress
    /\ popup = "None"
    /\ \E sudo \in SudoModes :
       \E y \in refresh(Ctx(sudo)) :
         /\ Commit(y)
         /\ Refresh(y)
         /\ lastOp' = Op("refresh", NoChange, y)
    /\ UNCHANGED <<activeNet, hConfigs, popup, network_rules, pending_change,
                   countdown_start, countdown_seconds, changes, waited>>

----------------------------------------------------------------------------
(* The daemon: src/src/network/monitor.rs, src/src/network/power.rs *)

CHECK_INTERVAL_SECS == 5
VPN_RECONNECT_DELAY_MS == 2000
VPN_HEALTH_CHECK_INTERVAL == 30
MAX_RECONNECT_ATTEMPTS == 3

\* what a status read and a ping find: the default route goes through the
\* tunnel, the latest handshake is older than 3 minutes, 1.1.1.1 answers
Health ==
    { [routing_ok |-> TRUE,  handshake_stale |-> FALSE, has_internet |-> TRUE],
      [routing_ok |-> FALSE, handshake_stale |-> FALSE, has_internet |-> TRUE],
      [routing_ok |-> TRUE,  handshake_stale |-> TRUE,  has_internet |-> TRUE],
      [routing_ok |-> TRUE,  handshake_stale |-> TRUE,  has_internet |-> FALSE] }

\* time between two checks of the power tracker (half seconds): the interval,
\* or a sleep; and the uptime read (seconds), which a running daemon never sees
\* fall
Elapsed == {10, 31}
Uptimes == {60}

Min(a, b) == IF a <= b THEN a ELSE b
Pow2(n) == IF n = 0 THEN 1 ELSE IF n = 1 THEN 2 ELSE IF n = 2 THEN 4 ELSE IF n = 3 THEN 8 ELSE 16

\* tokio::time::sleep
sleep(x, ms) == [x EXCEPT !.trace = Append(@, Ev("sleep", ToString(ms), "done"))]

\* WgStatus as the daemon reads it
WgStatus(x, h) ==
    [connected |-> x.iface # NONE, interface |-> x.iface,
     handshake_stale |-> x.iface # NONE /\ h.handshake_stale,
     routing_ok |-> x.iface # NONE /\ h.routing_ok]

verify_vpn_health(status, h) ==
    IF ~status.connected THEN FALSE
    ELSE IF ~status.routing_ok THEN FALSE
    ELSE IF status.handshake_stale THEN h.has_internet
    ELSE TRUE

\* what a probe of the host returned, in the trace
observe(x, probe, res) == [x EXCEPT !.trace = Append(@, Ev(probe, NONE, res))]

\* a call of verify_vpn_health, in the trace
verified(x, status, h) ==
    observe(x, "verify_vpn_health",
            IF verify_vpn_health(status, h) THEN "healthy" ELSE "unhealthy")

\* just_resumed reporting a gap of exactly 3 intervals as a resume
just_resumed_AtThreshold(elapsed, current_uptime, uptime_before) ==
    LET expected_interval_ms == as_millis(2 * CHECK_INTERVAL_SECS)
        saturating_sub == IF uptime_before >= 10 THEN uptime_before - 10 ELSE 0
    IN  as_millis(elapsed) >= expected_interval_ms * 3 \/ current_uptime < saturating_sub

\* PowerStateTracker::check, just_resumed
just_resumed(elapsed, current_uptime, uptime_before) ==
    LET expected_interval_ms == as_millis(2 * CHECK_INTERVAL_SECS)
        saturating_sub == IF uptime_before >= 10 THEN uptime_before - 10 ELSE 0
    IN  as_millis(elapsed) > expected_interval_ms * 3 \/ current_uptime < saturating_sub

\* the context a daemon handler starts in
MonitorCtx(sudo) ==
    [sudo |-> sudo, iface |-> hIface, ks |-> hKs, store |-> store, listing |-> {},
     configs |-> hConfigs, res |-> "ok",
     out |-> "", ok |-> TRUE, en |-> FALSE, trace |-> <<>>,
     last_network_id |-> last_network_id, last_vpn_connected |-> last_vpn_connected,
     last_vpn_interface |-> last_vpn_interface,
     health_check_counter |-> health_check_counter,
     reconnect_attempts |-> reconnect_attempts]

\* config.network_rules.iter().find(|r| r.identifier == id); a rule of no kind
\* stands for None
NoRule == NetworkRule("", NONE, FALSE, FALSE, FALSE)
FindRule(cfg, id) ==
    LET i == RuleIdx(cfg.network_rules, id)
    IN  IF i = 0 THEN NoRule ELSE cfg.network_rules[i]

\* a.or(b) on Option<String>
OrElse(a, b) == IF a # NONE THEN a ELSE b

\* reconnect_vpn sleeping the backoff after every failed attempt
reconnect_vpn_SleepsAtLimit(x, profile) ==
    LET x1 == [x EXCEPT !.reconnect_attempts = @ + 1,
                        !.trace = Append(@, Ev("reconnect_vpn", profile,
                                               ToString(x.reconnect_attempts + 1)))]
        delay_ms == VPN_RECONNECT_DELAY_MS * Pow2(Min(x1.reconnect_attempts, 4))
        backoff(y) == sleep(y, delay_ms)
        connected(c) ==
            LET s == sleep(c, 1000)
            IN  { IF ~WgStatus(s, h).connected THEN backoff(s)
                  ELSE IF verify_vpn_health(WgStatus(s, h), h)
                       THEN [verified(s, WgStatus(s, h), h) EXCEPT !.reconnect_attempts = 0]
                       ELSE backoff(verified(s, WgStatus(s, h), h))
                  : h \in Health }
    IN  UNION { UNION { IF c.ok THEN connected(c) ELSE { backoff(c) }
                        : c \in connect(sleep(d, 500), profile) }
                : d \in disconnect(x1) }

\* reconnect_vpn; the trace records the call with the number of the attempt.
\* The status read after the connect finds any of Health
reconnect_vpn(x, profile) ==
    LET x1 == [x EXCEPT !.reconnect_attempts = @ + 1,
                        !.trace = Append(@, Ev("reconnect_vpn", profile,
                                               ToString(x.reconnect_attempts + 1)))]
        delay_ms == VPN_RECONNECT_DELAY_MS * Pow2(Min(x1.reconnect_attempts, 4))
        backoff(y) == IF y.reconnect_attempts < MAX_RECONNECT_ATTEMPTS
                      THEN sleep(y, delay_ms) ELSE y
        connected(c) ==
            LET s == sleep(c, 1000)
            IN  { IF ~WgStatus(s, h).connected THEN backoff(s)
                  ELSE IF verify_vpn_health(WgStatus(s, h), h)
                       THEN [verified(s, WgStatus(s, h), h) EXCEPT !.reconnect_attempts = 0]
                       ELSE backoff(verified(s, WgStatus(s, h), h))
                  : h \in Health }
    IN  UNION { UNION { IF c.ok THEN connected(c) ELSE { backoff(c) }
                        : c \in connect(sleep(d, 500), profile) }
                : d \in disconnect(x1) }

clear_session_rule(x, network_id) ==
    LET cfg == Load(x.store)
        session(r) == r.identifier = network_id /\ r.session_vpn
        other(r) == ~session(r)
    IN  IF FirstIdx(cfg.network_rules, session) # 0
        THEN disconnect([x EXCEPT !.store =
                 Saved([cfg EXCEPT !.network_rules = SelectSeq(@, other)])])
        ELSE { x }

\* the VPN state the daemon remembers
Remember(x, status) ==
    [x EXCEPT !.last_vpn_connected = status.connected,
              !.last_vpn_interface = status.interface]

\* handle_network_change taking the tunnel down on a network without a rule
handle_network_change_EndsTunnel(x, cfg, current_id, h) ==
    LET rule == FindRule(cfg, current_id)
        profile == OrElse(rule.tunnel_name, cfg.default_profile)
        connects(y) == IF profile = NONE THEN { y }
                       ELSE { IF c.ok THEN [c EXCEPT !.reconnect_attempts = 0] ELSE c
                              : c \in connect(y, profile) }
        applied(y) ==
            IF current_id = NONE THEN { y }
            ELSE IF rule.always_vpn THEN connects(y)
            ELSE IF rule.session_vpn THEN connects(y)
            ELSE IF rule.never_vpn THEN disconnect(y)
            ELSE disconnect(y)
    IN  UNION { { Remember([z EXCEPT !.last_network_id = current_id], WgStatus(z, h))
                  : z \in applied(y) }
                : y \in IF x.last_network_id # NONE
                        THEN clear_session_rule(x, x.last_network_id) ELSE { x } }

\* handle_network_change: the Session rule of the network left goes, the rule
\* of the network reached is applied, the VPN state is remembered
handle_network_change(x, cfg, current_id, h) ==
    LET rule == FindRule(cfg, current_id)
        profile == OrElse(rule.tunnel_name, cfg.default_profile)
        connects(y) == IF profile = NONE THEN { y }
                       ELSE { IF c.ok THEN [c EXCEPT !.reconnect_attempts = 0] ELSE c
                              : c \in connect(y, profile) }
        applied(y) ==
            IF current_id = NONE THEN { y }
            ELSE IF rule.always_vpn THEN connects(y)
            ELSE IF rule.session_vpn THEN connects(y)
            ELSE IF rule.never_vpn THEN disconnect(y)
            ELSE { y }
    IN  UNION { { Remember([z EXCEPT !.last_network_id = current_id], WgStatus(z, h))
                  : z \in applied(y) }
                : y \in IF x.last_network_id # NONE
                        THEN clear_session_rule(x, x.last_network_id) ELSE { x } }

\* check_vpn_health letting a health recovery start at the limit
check_vpn_health_OneMore(x, cfg, current_id, h) ==
    LET wg_status == WgStatus(x, h)
        rule == FindRule(cfg, current_id)
        wanted == rule.always_vpn \/ rule.session_vpn
        dropped(y) ==
            IF y.last_vpn_connected /\ ~wg_status.connected
               /\ current_id # NONE /\ rule # NoRule
            THEN IF wanted /\ y.reconnect_attempts < MAX_RECONNECT_ATTEMPTS
                 THEN LET profile == OrElse(rule.tunnel_name,
                                            OrElse(cfg.default_profile,
                                                   y.last_vpn_interface))
                      IN  IF profile # NONE THEN reconnect_vpn(y, profile) ELSE { y }
                 ELSE IF y.reconnect_attempts >= MAX_RECONNECT_ATTEMPTS
                 THEN { [observe(y, "notify_vpn_failed", "sent") EXCEPT
                             !.reconnect_attempts = 0] }
                 ELSE { y }
            ELSE { y }
        unhealthy(y) ==
            IF ~wg_status.connected THEN { y }
            ELSE IF ~verify_vpn_health(wg_status, h)
                    /\ current_id # NONE /\ rule # NoRule
                    /\ wanted /\ y.reconnect_attempts <= MAX_RECONNECT_ATTEMPTS
                    /\ wg_status.interface # NONE
                 THEN reconnect_vpn(verified(y, wg_status, h), wg_status.interface)
                 ELSE { verified(y, wg_status, h) }
    IN  UNION { { Remember(z, wg_status) : z \in unhealthy(y) } : y \in dropped(x) }

\* check_vpn_health
check_vpn_health(x, cfg, current_id, h) ==
    LET wg_status == WgStatus(x, h)
        rule == FindRule(cfg, current_id)
        wanted == rule.always_vpn \/ rule.session_vpn
        dropped(y) ==
            IF y.last_vpn_connected /\ ~wg_status.connected
               /\ current_id # NONE /\ rule # NoRule
            THEN IF wanted /\ y.reconnect_attempts < MAX_RECONNECT_ATTEMPTS
                 THEN LET profile == OrElse(rule.tunnel_name,
                                            OrElse(cfg.default_profile,
                                                   y.last_vpn_interface))
                      IN  IF profile # NONE THEN reconnect_vpn(y, profile) ELSE { y }
                 ELSE IF y.reconnect_attempts >= MAX_RECONNECT_ATTEMPTS
                 THEN { [observe(y, "notify_vpn_failed", "sent") EXCEPT
                             !.reconnect_attempts = 0] }
                 ELSE { y }
            ELSE { y }
        unhealthy(y) ==
            IF ~wg_status.connected THEN { y }
            ELSE IF ~verify_vpn_health(wg_status, h)
                    /\ current_id # NONE /\ rule # NoRule
                    /\ wanted /\ y.reconnect_attempts < MAX_RECONNECT_ATTEMPTS
                    /\ wg_status.interface # NONE
                 THEN reconnect_vpn(verified(y, wg_status, h), wg_status.interface)
                 ELSE { verified(y, wg_status, h) }
    IN  UNION { { Remember(z, wg_status) : z \in unhealthy(y) } : y \in dropped(x) }

run_monitoring_cycle(x, cfg, h) ==
    LET current_id == IF activeNet = NONE THEN NONE
                      ELSE identifier(NetworkInfo(activeNet, TRUE))
        changed == IF current_id # x.last_network_id
                   THEN handle_network_change(x, cfg, current_id, h)
                   ELSE { x }
        counted(y) ==
            LET c == y.health_check_counter + CHECK_INTERVAL_SECS
            IN  IF c >= VPN_HEALTH_CHECK_INTERVAL
                THEN check_vpn_health([y EXCEPT !.health_check_counter = 0],
                                      cfg, current_id, h)
                ELSE { [y EXCEPT !.health_check_counter = c] }
    IN  UNION { counted(y) : y \in changed }

\* a variant that takes a connected tunnel for the expected one
resume_always_AnyTunnel(x, wg_status, expected_tunnel, h) ==
    IF expected_tunnel = NONE THEN { x }
    ELSE IF ~wg_status.connected
         THEN reconnect_vpn(x, expected_tunnel)
    ELSE IF ~verify_vpn_health(wg_status, h)
         THEN reconnect_vpn(verified(x, wg_status, h), expected_tunnel)
    ELSE { verified(x, wg_status, h) }

\* handle_resume, the arm of an Always rule
resume_always(x, wg_status, expected_tunnel, h) ==
    IF expected_tunnel = NONE THEN { x }
    ELSE IF ~wg_status.connected \/ wg_status.interface # expected_tunnel
         THEN reconnect_vpn(x, expected_tunnel)
    ELSE IF ~verify_vpn_health(wg_status, h)
         THEN reconnect_vpn(verified(x, wg_status, h), expected_tunnel)
    ELSE { verified(x, wg_status, h) }

\* PowerStateTracker::reset_baseline, in the trace
reset_baseline(x) == observe(x, "reset_baseline", "reset")

\* handle_resume returning early without a new baseline
handle_resume_KeepsBaseline(x, cfg, network_ready, internet, h) ==
    LET waited_for == observe(x, "wait_for_network_ready",
                              IF network_ready THEN "ready" ELSE "timeout")
        probed == observe(sleep(waited_for, VPN_RECONNECT_DELAY_MS), "check_connectivity",
                          IF internet THEN "internet" ELSE "no internet")
        current_id == IF activeNet = NONE THEN NONE
                      ELSE identifier(NetworkInfo(activeNet, TRUE))
        wg_status == WgStatus(x, h)
        x1 == [probed EXCEPT !.last_network_id = current_id]
        rule == FindRule(cfg, current_id)
        expected_tunnel == OrElse(rule.tunnel_name, cfg.default_profile)
        reconciled ==
            IF current_id = NONE THEN { x1 }
            ELSE IF rule.always_vpn THEN resume_always(x1, wg_status, expected_tunnel, h)
            ELSE IF rule.session_vpn THEN
                UNION { IF wg_status.connected THEN disconnect(y) ELSE { y }
                        : y \in clear_session_rule(x1, current_id) }
            ELSE IF rule.never_vpn THEN
                IF wg_status.connected THEN disconnect(x1) ELSE { x1 }
            ELSE IF ~wg_status.connected THEN { x1 }
            ELSE IF ~verify_vpn_health(wg_status, h)
                 THEN disconnect(verified(x1, wg_status, h))
                 ELSE { verified(x1, wg_status, h) }
    IN  IF ~network_ready THEN { waited_for }
        ELSE IF ~internet THEN { probed }
        ELSE { reset_baseline([Remember(y, WgStatus(y, h)) EXCEPT !.reconnect_attempts = 0])
               : y \in reconciled }

\* handle_resume: every return resets the baseline of the power tracker
handle_resume(x, cfg, network_ready, internet, h) ==
    LET waited_for == observe(x, "wait_for_network_ready",
                              IF network_ready THEN "ready" ELSE "timeout")
        probed == observe(sleep(waited_for, VPN_RECONNECT_DELAY_MS), "check_connectivity",
                          IF internet THEN "internet" ELSE "no internet")
        current_id == IF activeNet = NONE THEN NONE
                      ELSE identifier(NetworkInfo(activeNet, TRUE))
        wg_status == WgStatus(x, h)
        x1 == [probed EXCEPT !.last_network_id = current_id]
        rule == FindRule(cfg, current_id)
        expected_tunnel == OrElse(rule.tunnel_name, cfg.default_profile)
        reconciled ==
            IF current_id = NONE THEN { x1 }
            ELSE IF rule.always_vpn THEN resume_always(x1, wg_status, expected_tunnel, h)
            ELSE IF rule.session_vpn THEN
                UNION { IF wg_status.connected THEN disconnect(y) ELSE { y }
                        : y \in clear_session_rule(x1, current_id) }
            ELSE IF rule.never_vpn THEN
                IF wg_status.connected THEN disconnect(x1) ELSE { x1 }
            ELSE IF ~wg_status.connected THEN { x1 }
            ELSE IF ~verify_vpn_health(wg_status, h)
                 THEN disconnect(verified(x1, wg_status, h))
                 ELSE { verified(x1, wg_status, h) }
    IN  IF ~network_ready THEN { reset_baseline(waited_for) }
        ELSE IF ~internet THEN { reset_baseline(probed) }
        ELSE { reset_baseline([Remember(y, WgStatus(y, h)) EXCEPT !.reconnect_attempts = 0])
               : y \in reconciled }

----------------------------------------------------------------------------
(* The host before the TUI starts *)

KnownTunnels == <<TunnelInfo("t1", FALSE), TunnelInfo("t2", TRUE)>>

AppConfig(rules, last, auto) ==
    [network_rules |-> rules, default_profile |-> NONE, last_connected |-> last,
     auto_reconnect |-> auto, kill_switch |-> FALSE, known_tunnels |-> KnownTunnels]

InitStores ==
    { AppConfig(rules, la[1], la[2]) :
        rules \in { <<>> },
        la \in { <<NONE, FALSE>>, <<"t2", TRUE>> } }

\* the App before App::new
AppBoot ==
    /\ phase = "boot"
    /\ popup = "None"
    /\ networks = <<>>
    /\ tunnels = <<>>
    /\ vpn_status = [connected |-> FALSE, interface |-> NONE]
    /\ network_rules = <<>>
    /\ config = AppConfig(<<>>, NONE, FALSE)
    /\ kill_switch_enabled = FALSE
    /\ pending_change = NoChange
    /\ countdown_start = NoInstant
    /\ countdown_seconds = 0
    /\ keys = 0
    /\ changes = <<>>
    /\ waited = NoInstant

\* the daemon before start_monitoring
MonitorStopped ==
    /\ daemon = "stopped"
    /\ last_network_id = NONE
    /\ last_vpn_connected = FALSE
    /\ last_vpn_interface = NONE
    /\ health_check_counter = 0
    /\ reconnect_attempts = 0
    /\ last_uptime = 0

\* the host has the configs of both tunnels, or has lost them (the directory
\* was emptied while no tunnel was up)
Init ==
    /\ hIface \in Tunnels \cup {NONE}
    /\ hKs \in BOOLEAN
    /\ hKs => hIface # NONE
    /\ activeNet = "home"
    /\ hConfigs \in {Tunnels, {}}
    /\ hConfigs = {} => hIface = NONE
    /\ store \in InitStores
    /\ store.auto_reconnect => hIface = NONE /\ hConfigs # {}
    /\ AppBoot
    /\ MonitorStopped
    /\ lastOp = Idle

TuiNext ==
    \/ AppNew
    \/ Tick
    \/ Advance
    \/ KeyEsc
    \/ KeyHelp
    \/ \E i \in 1..Len(networks) : KeyRule(i)
    \/ \E i \in 1..Len(networks) : KeyTunnel(i)
    \/ KeyKillSwitch
    \/ \E i \in 1..Len(tunnels) : KeyUseTunnel(i)

\* the TUI alone on the host
Next == TuiNext /\ UNCHANGED monitorVars

Spec == Init /\ [][Next]_vars

\* 'r' pressed by a user who presses no other key
RuleKey(i) == KeyPressWithin(MaxRuleKeys) /\ CycleTunnelRule(i)

NextRuleKeys ==
    /\ \/ AppNew
       \/ Tick
       \/ Advance
       \/ \E i \in 1..Len(networks) : RuleKey(i)
    /\ UNCHANGED monitorVars

\* the TUI alone on the host, its user cycling rules
SpecRuleKeys == Init /\ [][NextRuleKeys]_vars

----------------------------------------------------------------------------
(* The TUI of a user who refreshes, on a host whose config directory and    *)
(* persisted tunnel list disagree                                           *)

\* a TunnelInfo of another protocol
OtherTunnel(name) == [TunnelInfo(name, FALSE) EXCEPT !.protocol = "openvpn"]

\* the persisted tunnel lists: every sublist of one list that names each tunnel
AllKnown == <<TunnelInfo("t1", FALSE), OtherTunnel("t3"), TunnelInfo("t2", TRUE),
              TunnelInfo("t3", FALSE)>>

KnownLists ==
    { LET in(t) == t \in S IN SelectSeq(AllKnown, in)
      : S \in SUBSET {AllKnown[i] : i \in 1..Len(AllKnown)} }

AllNames == {ProfileNames[i] : i \in 1..Len(ProfileNames)}

\* a config file is put into the helper's directory, or taken out of it, by
\* someone else than the App
ConfigsChange ==
    /\ \E n \in AllNames :
         hConfigs' = IF n \in hConfigs THEN hConfigs \ {n} ELSE hConfigs \cup {n}
    /\ lastOp' = Idle
    /\ UNCHANGED <<hIface, hKs, activeNet, store, appVars, keys, changes, waited>>

\* any tunnel may be up, with or without its config file
InitProfiles ==
    /\ hIface \in AllNames \cup {NONE}
    /\ hKs = FALSE
    /\ activeNet = "home"
    /\ hConfigs \in SUBSET AllNames
    /\ store \in { [AppConfig(<<>>, NONE, FALSE) EXCEPT !.known_tunnels = k] : k \in KnownLists }
    /\ AppBoot
    /\ MonitorStopped
    /\ lastOp = Idle

NextProfiles ==
    /\ \/ AppNew
       \/ Tick
       \/ KeyRefresh
       \/ ConfigsChange
    /\ UNCHANGED monitorVars

SpecProfiles == InitProfiles /\ [][NextProfiles]_vars

----------------------------------------------------------------------------
(* The policy store on its own: AppConfig::save and AppConfig::load over    *)
(* configs whose strings are sequences of code points.  An Option is a      *)
(* sequence of at most one value.  The file is a TOML document: a table is  *)
(* a function of the keys written, a string is written escaped.            *)

MaxIdLen == 6       \* code points of a rule identifier

ESC == 27           \* '\x1b'
LF == 10            \* a control character that is no escape
LatinA == 97        \* 'a', one byte in UTF-8
EAcute == 233       \* U+00E9, two bytes in UTF-8
Backslash == 92
LetterU == 117      \* 'u' of the TOML escape \uXXXX

None == <<>>
Some(v) == <<v>>

\* char::is_control: the code points of category Cc
is_control(ch) == ch < 32 \/ (ch >= 127 /\ ch <= 159)

\* char::len_utf8
len_utf8(ch) == IF ch < 128 THEN 1 ELSE IF ch < 2048 THEN 2 ELSE IF ch < 65536 THEN 3 ELSE 4

\* str::len: the length in bytes
RECURSIVE byte_len(_)
byte_len(str) == IF str = <<>> THEN 0 ELSE len_utf8(Head(str)) + byte_len(Tail(str))

\* str::contains(char)
contains(str, ch) == \E i \in 1..Len(str) : str[i] = ch

\* the retain closure of AppConfig::save
retains(r) ==
    /\ ~contains(r.identifier, ESC)
    /\ r.identifier # <<>>
    /\ byte_len(r.identifier) > 5

\* AppConfig::save up to the serialisation: clean_config
clean_config(cfg) ==
    LET kept == SelectSeq(cfg.network_rules, retains)
        norm(r) == IF r.tunnel_name = Some(<<>>) THEN [r EXCEPT !.tunnel_name = None] ELSE r
    IN  [cfg EXCEPT !.network_rules = [i \in 1..Len(kept) |-> norm(kept[i])]]

\* a TOML basic string: a backslash and a control character are written as
\* escape sequences
RECURSIVE Escape(_)
Escape(str) ==
    IF str = <<>> THEN <<>>
    ELSE (IF Head(str) = Backslash THEN <<Backslash, Backslash>>
          ELSE IF is_control(Head(str)) THEN <<Backslash, LetterU, Head(str)>>
          ELSE <<Head(str)>>) \o Escape(Tail(str))

\* the string a TOML basic string stands for
RECURSIVE Unescape(_)
Unescape(text) ==
    IF text = <<>> THEN <<>>
    ELSE IF Head(text) # Backslash THEN <<Head(text)>> \o Unescape(Tail(text))
    ELSE IF text[2] = Backslash THEN <<Backslash>> \o Unescape(SubSeq(text, 3, Len(text)))
    ELSE <<text[3]>> \o Unescape(SubSeq(text, 4, Len(text)))

\* a table: the keys of Always, and a key of Optional when its Option is Some
\* (skip_serializing_if = "Option::is_none")
Table(rec, Always, Optional, Strings) ==
    [k \in Always \cup {o \in Optional : rec[o] # None} |->
        IF k \in Optional THEN Escape(rec[k][1])
        ELSE IF k \in Strings THEN Escape(rec[k])
        ELSE rec[k]]

\* toml::to_string_pretty of an AppConfig
to_string_pretty(cfg) ==
    LET rule(r) == Table(r, {"identifier", "always_vpn", "never_vpn", "session_vpn"},
                         {"tunnel_name"}, {"identifier"})
        info(t) == Table(t, {"name", "protocol", "kill_switch"}, {}, {"name", "protocol"})
        lists == [cfg EXCEPT
                    !.network_rules = [i \in 1..Len(@) |-> rule(@[i])],
                    !.known_tunnels = [i \in 1..Len(@) |-> info(@[i])]]
    IN  Table(lists, {"network_rules", "auto_reconnect", "kill_switch", "notifications",
                      "known_tunnels"},
              {"default_profile", "last_connected"}, {})

\* a key of a table as serde reads it: an Option is None when the key is
\* absent
OptionalString(table, k) == IF k \in DOMAIN table THEN Some(Unescape(table[k])) ELSE None

\* #[serde(default)]
OrDefault(table, k, default) == IF k \in DOMAIN table THEN table[k] ELSE default

\* toml::from_str::<AppConfig>
from_str(doc) ==
    LET rule(t) == [identifier |-> Unescape(t.identifier),
                    tunnel_name |-> OptionalString(t, "tunnel_name"),
                    always_vpn |-> OrDefault(t, "always_vpn", FALSE),
                    never_vpn |-> OrDefault(t, "never_vpn", FALSE),
                    session_vpn |-> OrDefault(t, "session_vpn", FALSE)]
        info(t) == [name |-> Unescape(t.name), protocol |-> Unescape(t.protocol),
                    kill_switch |-> OrDefault(t, "kill_switch", FALSE)]
        rules == OrDefault(doc, "network_rules", <<>>)
        known == OrDefault(doc, "known_tunnels", <<>>)
    IN  [network_rules |-> [i \in 1..Len(rules) |-> rule(rules[i])],
         default_profile |-> OptionalString(doc, "default_profile"),
         last_connected |-> OptionalString(doc, "last_connected"),
         auto_reconnect |-> OrDefault(doc, "auto_reconnect", FALSE),
         kill_switch |-> OrDefault(doc, "kill_switch", FALSE),
         notifications |-> OrDefault(doc, "notifications", FALSE),
         known_tunnels |-> [i \in 1..Len(known) |-> info(known[i])]]

\* AppConfig::save: the content of the file
save(cfg) == to_string_pretty(clean_config(cfg))

\* AppConfig::load of the file save wrote
load(file) == from_str(file)

\* "wifi:home", "my-vpn", "wireguard"
WifiHome == <<119, 105, 102, 105, 58, 104, 111, 109, 101>>
MyVpn == <<109, 121, 45, 118, 112, 110>>
Wireguard == <<119, 105, 114, 101, 103, 117, 97, 114, 100>>

IdChars == {LatinA, EAcute, LF, ESC}

Identifiers == UNION { [1..n -> IdChars] : n \in 0..MaxIdLen }

OptionalNames == {None, Some(<<>>), Some(MyVpn)}

\* AppConfig::default
DefaultConfig ==
    [network_rules |-> <<>>, default_profile |-> None, last_connected |-> None,
     auto_reconnect |-> FALSE, kill_switch |-> FALSE, notifications |-> FALSE,
     known_tunnels |-> <<>>]

\* the configs saved: a rule of any identifier before a well-formed one, and
\* well-formed rules with the other fields taking each of their values
Configs ==
    { [DefaultConfig EXCEPT
          !.network_rules = <<NetworkRule(id, Some(MyVpn), TRUE, FALSE, FALSE),
                              NetworkRule(WifiHome, None, FALSE, TRUE, FALSE)>>]
      : id \in Identifiers }
    \cup
    { [network_rules |-> <<NetworkRule(WifiHome, t, m, FALSE, ~m)>>,
       default_profile |-> d, last_connected |-> l, auto_reconnect |-> b,
       kill_switch |-> ~b, notifications |-> b,
       known_tunnels |-> IF b THEN <<[name |-> MyVpn, protocol |-> Wireguard,
                                      kill_switch |-> m]>>
                         ELSE <<>>]
      : t \in OptionalNames, d \in OptionalNames, l \in {None, Some(MyVpn)},
        m \in BOOLEAN, b \in BOOLEAN }

\* self.config.save()
ConfigSave ==
    /\ phase \in {"memory", "loaded"}
    /\ phase' = "saved"
    /\ store' = save(config)
    /\ UNCHANGED <<hIface, hKs, activeNet, hConfigs, popup, networks, tunnels, vpn_status,
                   network_rules, config, kill_switch_enabled, pending_change,
                   countdown_start, countdown_seconds, histVars, monitorVars>>

\* AppConfig::load() of the next start
ConfigLoad ==
    /\ phase = "saved"
    /\ phase' = "loaded"
    /\ config' = load(store)
    /\ network_rules' = config'.network_rules
    /\ UNCHANGED <<worldVars, popup, networks, tunnels, vpn_status, kill_switch_enabled,
                   pending_change, countdown_start, countdown_seconds, histVars,
                   monitorVars>>

InitConfig ==
    /\ hIface = NONE
    /\ hKs = FALSE
    /\ activeNet = NONE
    /\ hConfigs = {}
    /\ store = <<>>
    /\ phase = "memory"
    /\ popup = "None"
    /\ networks = <<>>
    /\ tunnels = <<>>
    /\ vpn_status = [connected |-> FALSE, interface |-> NONE]
    /\ config \in Configs
    /\ network_rules = config.network_rules
    /\ kill_switch_enabled = FALSE
    /\ pending_change = NoChange
    /\ countdown_start = NoInstant
    /\ countdown_seconds = 0
    /\ keys = 0
    /\ changes = <<>>
    /\ waited = NoInstant
    /\ MonitorStopped
    /\ lastOp = Idle

NextConfig == ConfigSave \/ ConfigLoad

SpecConfig == InitConfig /\ [][NextConfig]_vars

----------------------------------------------------------------------------
(* The TUI of a user who schedules changes and cancels them, its loop       *)
(* running: run_app polls for a key for 100 ms and calls tick()             *)

MaxChangeKeys == 2  \* key presses per run of a user who presses 'r', 'k' and Esc

ChangeKey == KeyPressWithin(MaxChangeKeys)

InitApply ==
    /\ hIface \in {"t1", NONE}
    /\ hKs = FALSE
    /\ activeNet = "home"
    /\ hConfigs = Tunnels
    /\ store = AppConfig(<<>>, NONE, FALSE)
    /\ AppBoot
    /\ MonitorStopped
    /\ lastOp = Idle

Ticks == Tick /\ UNCHANGED monitorVars
Advances == Advance /\ UNCHANGED monitorVars

NextApply ==
    \/ AppNew /\ UNCHANGED monitorVars
    \/ Ticks
    \/ Advances
    \/ ChangeKey /\ HandleEsc /\ UNCHANGED monitorVars
    \/ \E i \in 1..Len(networks) : ChangeKey /\ CycleTunnelRule(i) /\ UNCHANGED monitorVars
    \/ ChangeKey /\ ToggleKillSwitch /\ UNCHANGED monitorVars

\* the loop keeps calling tick(), and time passes
SpecApply ==
    /\ InitApply
    /\ [][NextApply]_vars
    /\ WF_vars(Ticks)
    /\ WF_vars(Advances)

----------------------------------------------------------------------------
(* The daemon alone on the host: start_monitoring, its loop, and what the   *)
(* host does around it                                                     *)

\* what a daemon handler leaves on the host and in MonitorState
MonitorCommit(y) ==
    /\ hIface' = y.iface
    /\ hKs' = y.ks
    /\ store' = y.store
    /\ last_network_id' = y.last_network_id
    /\ last_vpn_connected' = y.last_vpn_connected
    /\ last_vpn_interface' = y.last_vpn_interface
    /\ health_check_counter' = y.health_check_counter
    /\ reconnect_attempts' = y.reconnect_attempts

\* start_monitoring up to its loop
StartMonitoring ==
    /\ daemon = "stopped"
    /\ daemon' = "running"
    /\ \E up \in Uptimes : last_uptime' = up
    /\ last_network_id' = NONE
    /\ last_vpn_connected' = get_status(MonitorCtx("ready")).connected
    /\ last_vpn_interface' = get_status(MonitorCtx("ready")).interface
    /\ health_check_counter' = 0
    /\ reconnect_attempts' = 0
    /\ lastOp' = Op("start_monitoring", NoChange, [trace |-> <<>>])
    /\ UNCHANGED <<worldVars, appVars, keys, changes, waited>>

\* what the host presents to a handler: whether sudo runs the helper, and what
\* the status reads and pings find
HostInputs == { [sudo |-> sudo, h |-> h] : sudo \in SudoModes, h \in Health }
AnyHostInput == CHOOSE in \in HostInputs : in.sudo = "ready"

\* a round that sees no network change and is not due for a health check calls
\* neither the helper nor a probe
CycleInputs ==
    LET current_id == IF activeNet = NONE THEN NONE
                      ELSE identifier(NetworkInfo(activeNet, TRUE))
    IN  IF current_id # last_network_id
           \/ health_check_counter + CHECK_INTERVAL_SECS >= VPN_HEALTH_CHECK_INTERVAL
        THEN HostInputs
        ELSE { AnyHostInput }

\* a resume reads the network, then the internet, then the rest
ResumeInputs ==
    { [sudo |-> AnyHostInput.sudo, h |-> AnyHostInput.h, network_ready |-> FALSE,
       internet |-> FALSE],
      [sudo |-> AnyHostInput.sudo, h |-> AnyHostInput.h, network_ready |-> TRUE,
       internet |-> FALSE] }
    \cup { [sudo |-> in.sudo, h |-> in.h, network_ready |-> TRUE, internet |-> TRUE]
            : in \in HostInputs }

\* one round of the loop without a resume: run_monitoring_cycle
MonitoringCycle ==
    /\ daemon = "running"
    /\ \E elapsed \in Elapsed, up \in Uptimes :
         /\ ~just_resumed(elapsed, up, last_uptime)
         /\ last_uptime' = up
    /\ \E in \in CycleInputs :
       \E y \in run_monitoring_cycle(MonitorCtx(in.sudo), Load(store), in.h) :
         /\ MonitorCommit(y)
         /\ lastOp' = Op("run_monitoring_cycle", NoChange, y)
    /\ UNCHANGED <<activeNet, hConfigs, daemon, appVars, keys, changes, waited>>

\* one round of the loop after a sleep or a reboot: handle_resume
Resume ==
    /\ daemon = "running"
    /\ \E elapsed \in Elapsed, up \in Uptimes :
         /\ just_resumed(elapsed, up, last_uptime)
         /\ last_uptime' = up
    /\ \E in \in ResumeInputs :
       \E y \in handle_resume(MonitorCtx(in.sudo), Load(store), in.network_ready,
                              in.internet, in.h) :
         /\ MonitorCommit(y)
         /\ lastOp' = Op("handle_resume", NoChange, y)
    /\ UNCHANGED <<activeNet, hConfigs, daemon, appVars, keys, changes, waited>>

\* the host attaches to another network, or to none
NetworkChanges ==
    /\ \E n \in {Ssids[i] : i \in 1..Len(Ssids)} \cup {NONE} :
         /\ n # activeNet
         /\ activeNet' = n
    /\ lastOp' = Idle
    /\ UNCHANGED <<hIface, hKs, hConfigs, store, appVars, keys, changes, waited, monitorVars>>

\* the tunnel interface goes away under the daemon
TunnelDrops ==
    /\ hIface # NONE
    /\ hIface' = NONE
    /\ lastOp' = Idle
    /\ UNCHANGED <<hKs, activeNet, hConfigs, store, appVars, keys, changes, waited, monitorVars>>

\* the rules the user has set for the two networks
RuleKinds(ssid) ==
    { <<>>,
      <<NetworkRule("wifi:" \o ssid, "t1", TRUE, FALSE, FALSE)>>,
      <<NetworkRule("wifi:" \o ssid, "t1", FALSE, TRUE, FALSE)>>,
      <<NetworkRule("wifi:" \o ssid, "t2", FALSE, FALSE, TRUE)>> }

MonitorStores ==
    { AppConfig(a \o b, NONE, FALSE) :
        a \in RuleKinds("home"), b \in { <<>>, <<NetworkRule("wifi:cafe", "t2", TRUE, FALSE, FALSE)>> } }

InitMonitor ==
    /\ hIface \in Tunnels \cup {NONE}
    /\ hKs \in BOOLEAN
    /\ hKs => hIface # NONE
    /\ activeNet = "home"
    /\ hConfigs = Tunnels
    /\ store \in MonitorStores
    /\ AppBoot
    /\ MonitorStopped
    /\ lastOp = Idle

NextMonitor ==
    \/ StartMonitoring
    \/ MonitoringCycle
    \/ Resume
    \/ NetworkChanges
    \/ TunnelDrops

SpecMonitor == InitMonitor /\ [][NextMonitor]_vars

\* the user, in the TUI, presses 'r' on the attached network while it has no
\* rule (cycle_tunnel_rule makes it Always for the first tunnel of the list)
\* and cancels the change the TUI schedules with it: what reaches the daemon
\* is the saved rule list
RuleSet ==
    /\ activeNet # NONE
    /\ LET id == identifier(NetworkInfo(activeNet, TRUE))
           rules == Append(WithoutRule(Load(store).network_rules, id),
                           NetworkRule(id, SortedNames(hConfigs)[1], TRUE, FALSE, FALSE))
       IN  /\ hConfigs # {}
           /\ RuleIdx(Load(store).network_rules, id) = 0
           /\ store' = Saved([Load(store) EXCEPT !.network_rules = rules])
    /\ lastOp' = Idle
    /\ UNCHANGED <<hIface, hKs, activeNet, hConfigs, appVars, keys, changes, waited,
                   monitorVars>>

InitMonitorFair ==
    /\ hIface \in Tunnels \cup {NONE}
    /\ hKs = FALSE
    /\ activeNet = "home"
    /\ hConfigs = Tunnels
    /\ store = AppConfig(<<>>, NONE, FALSE)
    /\ AppBoot
    /\ MonitorStopped
    /\ lastOp = Idle

NextMonitorFair ==
    \/ StartMonitoring
    \/ MonitoringCycle
    \/ Resume
    \/ NetworkChanges
    \/ TunnelDrops
    \/ RuleSet

\* the daemon is started and its interval timer fires every CHECK_INTERVAL_SECS;
\* sleeps, network changes, tunnel drops and rule edits may or may not happen
SpecMonitorFair ==
    /\ InitMonitorFair
    /\ [][NextMonitorFair]_vars
    /\ WF_vars(StartMonitoring)
    /\ WF_vars(MonitoringCycle)

----------------------------------------------------------------------------
(* Functions studied on their own.  The host is at rest, the inputs of a    *)
(* call are in lastOp, and the step that runs the function puts what it     *)
(* returned there.                                                          *)

AtRest ==
    /\ hIface = NONE
    /\ hKs = FALSE
    /\ activeNet = NONE
    /\ hConfigs = {}
    /\ store = AppConfig(<<>>, NONE, FALSE)
    /\ AppBoot
    /\ MonitorStopped

Rest == UNCHANGED <<worldVars, appVars, keys, changes, waited, monitorVars>>

----------------------------------------------------------------------------
(* The privileged-op client: src/src/vpn/mod.rs *)

MaxTook == 7        \* seconds a helper process is watched for

SUDO_TIMEOUT == 5   \* seconds

\* every verb the program calls the helper with; config-write is sent its
\* content on stdin
AllVerbs ==
    {"connect", "disconnect", "status", "killswitch-on", "killswitch-off",
     "killswitch-status", "config-list", "config-read", "config-write", "config-delete"}

\* exit codes of the helper
ExitCodes == {0, 1, 2}

\* timeout(SUDO_TIMEOUT, ..) answering a timed-out call like a refused one
helper_returns_TimeoutAsExit(spawned, took, code) ==
    IF took > SUDO_TIMEOUT THEN [is |-> "Ok", success |-> FALSE, code |-> 1]
    ELSE IF ~spawned THEN [is |-> "Err", msg |-> "Helper execution failed"]
    ELSE [is |-> "Ok", success |-> code = 0, code |-> code]

\* the Result of run_helper and of run_helper_with_stdin: sudo was spawned or
\* not, and the process ended with `code` after `took` seconds (later than
\* SUDO_TIMEOUT: the timeout fires first)
helper_returns(spawned, took, code) ==
    IF took > SUDO_TIMEOUT THEN [is |-> "Err", msg |-> "Command timed out"]
    ELSE IF ~spawned THEN [is |-> "Err", msg |-> "Helper execution failed"]
    ELSE [is |-> "Ok", success |-> code = 0, code |-> code]

HelperCalls ==
    { [op |-> "call", verb |-> v, spawned |-> s, took |-> t, code |-> c]
      : v \in AllVerbs, s \in BOOLEAN, t \in 0..MaxTook, c \in ExitCodes }

InitHelper == AtRest /\ lastOp \in HelperCalls

HelperReturns ==
    /\ lastOp.op = "call"
    /\ lastOp' = [op |-> "returned", call |-> lastOp,
                  result |-> helper_returns(lastOp.spawned, lastOp.took, lastOp.code)]
    /\ Rest

SpecHelper == InitHelper /\ [][HelperReturns]_vars

----------------------------------------------------------------------------
(* The power tracker: src/src/network/power.rs *)

MaxGap == 32        \* half seconds between two checks
MaxUptime == 22     \* seconds of uptime read

\* the gaps between two checks: none, one interval, and around three intervals
Gaps == {0, 2 * CHECK_INTERVAL_SECS, 6 * CHECK_INTERVAL_SECS, 6 * CHECK_INTERVAL_SECS + 1, MaxGap}

\* get_uptime_secs().unwrap_or(0)
UptimeReads == 0..MaxUptime

\* PowerStateTracker::new
PowerNew ==
    /\ daemon = "stopped"
    /\ daemon' = "running"
    /\ \E up \in UptimeReads : last_uptime' = up
    /\ lastOp' = [op |-> "new"]
    /\ UNCHANGED <<worldVars, appVars, keys, changes, waited, last_network_id,
                   last_vpn_connected, last_vpn_interface, health_check_counter,
                   reconnect_attempts>>

\* PowerStateTracker::check, elapsed after the previous check, the construction
\* or the reset
PowerCheck ==
    /\ daemon = "running"
    /\ \E elapsed \in Gaps, up \in UptimeReads :
         /\ lastOp' = [op |-> "check", elapsed |-> elapsed, uptime |-> up,
                       before |-> last_uptime, first |-> lastOp.op = "new",
                       just_resumed |-> just_resumed(elapsed, up, last_uptime)]
         /\ last_uptime' = up
    /\ UNCHANGED <<worldVars, appVars, keys, changes, waited, daemon, last_network_id,
                   last_vpn_connected, last_vpn_interface, health_check_counter,
                   reconnect_attempts>>

\* PowerStateTracker::reset_baseline
PowerReset ==
    /\ daemon = "running"
    /\ \E up \in UptimeReads : last_uptime' = up
    /\ lastOp' = [op |-> "reset"]
    /\ UNCHANGED <<worldVars, appVars, keys, changes, waited, daemon, last_network_id,
                   last_vpn_connected, last_vpn_interface, health_check_counter,
                   reconnect_attempts>>

InitPower == AtRest /\ lastOp = [op |-> "none"]

NextPower == PowerNew \/ PowerCheck \/ PowerReset

SpecPower == InitPower /\ [][NextPower]_vars

----------------------------------------------------------------------------
(* Handshake age: is_handshake_stale of src/src/vpn/wireguard.rs, over the  *)
(* phrases `wg show` prints after "latest handshake:", as sequences of code *)
(* points                                                                   *)

MaxParts == 4       \* words of a handshake phrase

Space == 32
Plus == 43
Digit0 == 48
Digit9 == 57
UpperA == 65
UpperZ == 90
\* the digits of u32::MAX, 4294967295
U32_MAX == <<52, 50, 57, 52, 57, 54, 55, 50, 57, 53>>

\* str::to_lowercase of an ASCII string
to_lowercase(str) ==
    [i \in 1..Len(str) |-> IF str[i] >= UpperA /\ str[i] <= UpperZ THEN str[i] + 32 ELSE str[i]]

\* str::contains(&str)
contains_str(str, pat) ==
    \E i \in 1..(Len(str) - Len(pat) + 1) : SubSeq(str, i, i + Len(pat) - 1) = pat

\* str::split_whitespace: the maximal runs of characters other than white space
RECURSIVE split_whitespace(_)
split_whitespace(str) ==
    IF str = <<>> THEN <<>>
    ELSE IF Head(str) = Space THEN split_whitespace(Tail(str))
    ELSE LET ends == {i \in 1..Len(str) : str[i] = Space}
             n == IF ends = {} THEN Len(str)
                  ELSE (CHOOSE i \in ends : \A j \in ends : i <= j) - 1
         IN  <<SubSeq(str, 1, n)>> \o split_whitespace(SubSeq(str, n + 1, Len(str)))

\* the value of a string of decimal digits
RECURSIVE Decimal(_)
Decimal(digits) ==
    IF digits = <<>> THEN 0
    ELSE 10 * Decimal(SubSeq(digits, 1, Len(digits) - 1)) + (digits[Len(digits)] - Digit0)

\* a string of digits without its leading zeros
RECURSIVE Significant(_)
Significant(digits) ==
    IF digits # <<>> /\ Head(digits) = Digit0 THEN Significant(Tail(digits)) ELSE digits

\* a number of as many digits as another is at most that number
RECURSIVE AtMost(_, _)
AtMost(digits, max) ==
    \/ digits = <<>>
    \/ Head(digits) < Head(max)
    \/ Head(digits) = Head(max) /\ AtMost(Tail(digits), Tail(max))

\* the digits are a number that 32 bits hold
FitsU32(digits) ==
    \/ Len(Significant(digits)) < Len(U32_MAX)
    \/ Len(Significant(digits)) = Len(U32_MAX) /\ AtMost(Significant(digits), U32_MAX)

\* str::parse::<u32>: Some(value) for an optional plus sign and digits that fit
\* 32 bits, else None
parse_u32(part) ==
    LET digits == IF part # <<>> /\ Head(part) = Plus THEN Tail(part) ELSE part
    IN  IF /\ digits # <<>>
           /\ \A i \in 1..Len(digits) : digits[i] >= Digit0 /\ digits[i] <= Digit9
           /\ FitsU32(digits)
        THEN Some(Decimal(digits))
        ELSE None

\* "hour", "day", "minute", "second"
Hour == <<104, 111, 117, 114>>
Day == <<100, 97, 121>>
Minute == <<109, 105, 110, 117, 116, 101>>
Second == <<115, 101, 99, 111, 110, 100>>

\* is_handshake_stale calling 3 minutes fresh
is_handshake_stale_Above3(handshake) ==
    LET handshake_lower == to_lowercase(handshake)
        parts == split_whitespace(handshake_lower)
        numbers == {i \in 1..Len(parts) : parse_u32(parts[i]) # None}
        first == CHOOSE i \in numbers : \A j \in numbers : i <= j
    IN  IF contains_str(handshake_lower, Hour) \/ contains_str(handshake_lower, Day) THEN TRUE
        ELSE IF contains_str(handshake_lower, Minute) /\ numbers # {}
             THEN parse_u32(parts[first])[1] > 3
        ELSE IF contains_str(handshake_lower, Second) /\ ~contains_str(handshake_lower, Minute)
             THEN FALSE
        ELSE TRUE

\* is_handshake_stale
is_handshake_stale(handshake) ==
    LET handshake_lower == to_lowercase(handshake)
        parts == split_whitespace(handshake_lower)
        numbers == {i \in 1..Len(parts) : parse_u32(parts[i]) # None}
        first == CHOOSE i \in numbers : \A j \in numbers : i <= j
    IN  IF contains_str(handshake_lower, Hour) \/ contains_str(handshake_lower, Day) THEN TRUE
        ELSE IF contains_str(handshake_lower, Minute) /\ numbers # {}
             THEN parse_u32(parts[first])[1] >= 3
        ELSE IF contains_str(handshake_lower, Second) /\ ~contains_str(handshake_lower, Minute)
             THEN FALSE
        ELSE TRUE

\* the words of a phrase: "2", "3", "59", "4294967296", "seconds", "Minutes,",
\* "hours,", "day,", "Now"
Words ==
    { <<50>>, <<51>>, <<53, 57>>,
      <<52, 50, 57, 52, 57, 54, 55, 50, 57, 54>>,
      <<115, 101, 99, 111, 110, 100, 115>>, <<77, 105, 110, 117, 116, 101, 115, 44>>,
      <<104, 111, 117, 114, 115, 44>>, <<100, 97, 121, 44>>, <<78, 111, 119>> }

\* the words of ws, a space between two
RECURSIVE Phrase(_)
Phrase(ws) ==
    IF ws = <<>> THEN <<>>
    ELSE IF Len(ws) = 1 THEN ws[1]
    ELSE ws[1] \o <<Space>> \o Phrase(Tail(ws))

Handshakes == { Phrase(ws) : ws \in UNION { [1..n -> Words] : n \in 0..MaxParts } }

InitHandshake == AtRest /\ lastOp \in { [op |-> "line", handshake |-> h] : h \in Handshakes }

\* wireguard::get_status on the line "latest handshake: .."
HandshakeRead ==
    /\ lastOp.op = "line"
    /\ lastOp' = [op |-> "status", handshake |-> lastOp.handshake,
                  handshake_stale |-> is_handshake_stale(lastOp.handshake)]
    /\ Rest

SpecHandshake == InitHandshake /\ [][HandshakeRead]_vars

----------------------------------------------------------------------------
(* The daemon on a host that stays awake and attached to one network, for   *)
(* which the user has set an Always or a Session rule: only the tunnel      *)
(* changes under it                                                         *)

WatchedStores ==
    { AppConfig(<<NetworkRule("wifi:home", "t1", TRUE, FALSE, FALSE)>>, NONE, FALSE),
      AppConfig(<<NetworkRule("wifi:home", "t2", FALSE, FALSE, TRUE)>>, NONE, FALSE) }

InitWatch ==
    /\ hIface \in Tunnels \cup {NONE}
    /\ hKs = FALSE
    /\ activeNet = "home"
    /\ hConfigs = Tunnels
    /\ store \in WatchedStores
    /\ AppBoot
    /\ MonitorStopped
    /\ lastOp = Idle

NextWatch ==
    \/ StartMonitoring
    \/ MonitoringCycle
    \/ TunnelDrops

\* the interval timer of the loop fires every CHECK_INTERVAL_SECS
SpecWatch ==
    /\ InitWatch
    /\ [][NextWatch]_vars
    /\ WF_vars(StartMonitoring)
    /\ WF_vars(MonitoringCycle)

----------------------------------------------------------------------------
(* The TUI of a user who edits the rule list, 'r', 't', and 'd' answered    *)
(* with 'y' in the Networks and the Tunnels section, on a host attached to  *)
(* no network: no change is scheduled, no countdown runs                    *)

MaxEdits == 3       \* rule-list operations per run

EditKey == KeyPressWithin(MaxEdits)

\* wireguard::delete_profile: the live tunnel of that name is taken down, the
\* helper deletes the config, the tunnel leaves the persisted list; a helper
\* call that fails or exits non-zero is an Err
delete_profile(x, name) ==
    LET status == get_status(x)
        taken_down == IF status.interface = name THEN disconnect(x) ELSE { x }
        other(t) == t.name # name
        forgets(z) == LET cfg == Load(z.store)
                      IN  [z EXCEPT !.ok = TRUE,
                                    !.store = Saved([cfg EXCEPT !.known_tunnels =
                                                        SelectSeq(cfg.known_tunnels, other)])]
    IN  UNION { { IF z.res = "ok" THEN forgets(z) ELSE [z EXCEPT !.ok = FALSE]
                  : z \in run_helper(y, "config-delete", name) }
                : y \in taken_down }

\* the loop of confirm_action over the rules: a rule of the deleted tunnel
\* keeps its mode and loses its tunnel
without_tunnel(rules, tunnel_name) ==
    [i \in 1..Len(rules) |->
        IF rules[i].tunnel_name = tunnel_name
        THEN [rules[i] EXCEPT !.tunnel_name = NONE]
        ELSE rules[i]]

\* confirm_action in the Networks section: the rules of the network named in
\* input_buffer go, then network::forget_network
forget_rules(rules, nets, network_name) ==
    LET named(n) == n.name = network_name
        i == FirstIdx(nets, named)
    IN  IF i = 0 THEN rules ELSE WithoutRule(rules, identifier(nets[i]))

\* 'd' in the Networks section with network i selected, answered with 'y':
\* delete_selection, then confirm_action.  iwctl or nmcli forgets the network
\* or fails
ForgetNetwork(i) ==
    /\ popup = "None"
    /\ LET input_buffer == networks[i].name
           rules == forget_rules(network_rules, networks, input_buffer)
           cfg == [config EXCEPT !.network_rules = rules]
       IN  /\ network_rules' = rules
           /\ \E forgot \in BOOLEAN :
                IF forgot
                THEN \E sudo \in SudoModes :
                     \E y \in refresh(SaveConfig([Ctx(sudo) EXCEPT !.cfg = cfg])) :
                       /\ Commit(y)
                       /\ Refresh(y)
                       /\ lastOp' = [Op("confirm_action", NoChange, set_status(y, "Forgot network"))
                                     EXCEPT !.key = Key("d", networks[i])]
                ELSE /\ config' = cfg
                     /\ store' = Saved(cfg)
                     /\ lastOp' = [Op("confirm_action", NoChange,
                                      set_status([trace |-> <<>>], "Error"))
                                   EXCEPT !.key = Key("d", networks[i])]
                     /\ UNCHANGED <<hIface, hKs, kill_switch_enabled, tunnels, vpn_status,
                                    networks>>
    /\ UNCHANGED <<activeNet, hConfigs, popup, pending_change, countdown_start,
                   countdown_seconds, changes, waited>>

\* 'd' in the Tunnels section with tunnel i selected, answered with 'y':
\* delete_selection, then confirm_action
DeleteTunnel(i) ==
    /\ popup = "None"
    /\ LET tunnel_name == tunnels[i]
           rules == without_tunnel(network_rules, tunnel_name)
           saved(a) == SaveConfig([a EXCEPT !.cfg = [a.cfg EXCEPT !.network_rules = rules]])
       IN  \E sudo \in SudoModes :
           \E y \in UNION { IF a.ok THEN refresh(saved(a)) ELSE { a }
                            : a \in delete_profile(Ctx(sudo), tunnel_name) } :
             /\ Commit(y)
             /\ hConfigs' = y.configs
             /\ network_rules' = IF y.ok THEN rules ELSE network_rules
             /\ IF y.ok THEN Refresh(y) ELSE UNCHANGED <<tunnels, vpn_status, networks>>
             /\ lastOp' = Op("confirm_action", [NoChange EXCEPT !.tunnel_name = tunnel_name],
                             set_status(y, IF y.ok THEN "Deleted" ELSE "Delete failed"))
    /\ UNCHANGED <<activeNet, popup, pending_change, countdown_start, countdown_seconds,
                   changes, waited>>

\* the ways a rule can be in exactly one mode
RuleModes == {<<TRUE, FALSE, FALSE>>, <<FALSE, TRUE, FALSE>>, <<FALSE, FALSE, TRUE>>}

\* no rule for an identifier, or one rule in one mode for one of the tunnels ts
RulesFor(id, ts) ==
    {<<>>} \cup { <<NetworkRule(id, t, m[1], m[2], m[3])>> : t \in ts, m \in RuleModes }

\* the rule lists of the file: at most one rule per network, in either order
RuleLists ==
    UNION { {a \o b, b \o a}
            : a \in RulesFor("wifi:cafe", {"t2"}), b \in RulesFor("wifi:home", {NONE, "t2"}) }

InitEdits ==
    /\ hIface \in {"t2", NONE}
    /\ hKs = FALSE
    /\ activeNet = NONE
    /\ hConfigs = Tunnels
    /\ store \in { AppConfig(rules, NONE, FALSE) : rules \in RuleLists }
    /\ AppBoot
    /\ MonitorStopped
    /\ lastOp = Idle

NextEdits ==
    /\ \/ AppNew
       \/ Tick
       \/ \E i \in 1..Len(networks) : EditKey /\ CycleTunnelRule(i)
       \/ \E i \in 1..Len(networks) : EditKey /\ CycleNetworkTunnel(i)
       \/ \E i \in 1..Len(networks) : EditKey /\ ForgetNetwork(i)
       \/ \E i \in 1..Len(tunnels) : EditKey /\ DeleteTunnel(i)
    /\ UNCHANGED monitorVars

SpecEdits == InitEdits /\ [][NextEdits]_vars

----------------------------------------------------------------------------
(* The daemon with its clock: the time between two checks of the power      *)
(* tracker is what the round before took, the interval timer, and a suspend *)
(* if there was one                                                         *)

NETWORK_READY_TIMEOUT_SECS == 30

\* a suspend between two ticks of the loop, in half seconds: none, or 20 s
Suspends == {0, 40}

\* the milliseconds a sleep event names
Millis(arg) ==
    CHOOSE ms \in {500, 1000, 2000, 4000, 8000, 16000, 32000} : ToString(ms) = arg

\* the least a call takes, in half seconds: a sleep its duration, a helper call
\* that times out SUDO_TIMEOUT, a network that does not come up the whole wait
Cost(e) ==
    IF e.verb = "sleep" THEN Millis(e.arg) \div 500
    ELSE IF e.verb = "wait_for_network_ready" /\ e.res = "timeout"
         THEN 2 * NETWORK_READY_TIMEOUT_SECS
    ELSE IF e.res = "timeout" THEN 2 * SUDO_TIMEOUT
    ELSE 0

RECURSIVE Took(_)
Took(tr) == IF tr = <<>> THEN 0 ELSE Cost(Head(tr)) + Took(Tail(tr))

\* half seconds from the baseline of the power tracker to the next tick of the
\* interval timer, after the round op: PowerStateTracker::new is followed by
\* the first tick at once; check() takes the baseline at the start of a round
\* and the next tick comes when the interval is over, or at once when the
\* round took longer; reset_baseline takes it at the end of handle_resume
Gap(op) ==
    LET interval == 2 * CHECK_INTERVAL_SECS
        took == Took(op.trace)
    IN  IF op.op = "start_monitoring" THEN 0
        ELSE IF Indices(op.trace, "reset_baseline") # {}
             THEN IF took >= interval THEN 0 ELSE interval - took
        ELSE IF took >= interval THEN took ELSE interval

\* what a round records on top of its handler: the handler before it, the
\* suspend before it and what check() measured
Timed(op, suspended) ==
    [op |-> op.op, action |-> op.action, tunnel |-> op.tunnel, id |-> op.id,
     waited |-> op.waited, preIface |-> op.preIface, preKs |-> op.preKs,
     preFlag |-> op.preFlag, preStatus |-> op.preStatus, tunnelKs |-> op.tunnelKs,
     key |-> op.key, trace |-> op.trace,
     after |-> lastOp.op, suspended |-> suspended, elapsed |-> Gap(lastOp) + suspended]

TimedOps == {"start_monitoring", "run_monitoring_cycle", "handle_resume"}

\* one round of the loop: check() does not report a resume, run_monitoring_cycle
TimedCycle ==
    /\ daemon = "running"
    /\ lastOp.op \in TimedOps
    /\ \E suspended \in Suspends, up \in Uptimes :
         /\ ~just_resumed(Gap(lastOp) + suspended, up, last_uptime)
         /\ last_uptime' = up
         /\ \E in \in CycleInputs :
            \E y \in run_monitoring_cycle(MonitorCtx(in.sudo), Load(store), in.h) :
              /\ MonitorCommit(y)
              /\ lastOp' = Timed(Op("run_monitoring_cycle", NoChange, y), suspended)
    /\ UNCHANGED <<activeNet, hConfigs, daemon, appVars, keys, changes, waited>>

\* one round of the loop: check() reports a resume, handle_resume
TimedResume ==
    /\ daemon = "running"
    /\ lastOp.op \in TimedOps
    /\ \E suspended \in Suspends, up \in Uptimes :
         /\ just_resumed(Gap(lastOp) + suspended, up, last_uptime)
         /\ last_uptime' = up
         /\ \E in \in ResumeInputs :
            \E y \in handle_resume(MonitorCtx(in.sudo), Load(store), in.network_ready,
                                   in.internet, in.h) :
              /\ MonitorCommit(y)
              /\ lastOp' = Timed(Op("handle_resume", NoChange, y), suspended)
    /\ UNCHANGED <<activeNet, hConfigs, daemon, appVars, keys, changes, waited>>

\* the tunnel interface goes away between two rounds
TunnelCut ==
    /\ daemon = "running"
    /\ hIface # NONE
    /\ hIface' = NONE
    /\ UNCHANGED <<hKs, activeNet, hConfigs, store, appVars, histVars, monitorVars>>

NextClock ==
    \/ StartMonitoring
    \/ TimedCycle
    \/ TimedResume
    \/ TunnelCut

SpecClock == InitWatch /\ [][NextClock]_vars

----------------------------------------------------------------------------
(* The daemon on a host that moves between networks: a round records what   *)
(* MonitorState and the file held when it began                             *)

\* one round of the loop without a resume: run_monitoring_cycle
RoamCycle ==
    /\ daemon = "running"
    /\ \E elapsed \in Elapsed, up \in Uptimes :
         /\ ~just_resumed(elapsed, up, last_uptime)
         /\ last_uptime' = up
    /\ \E in \in CycleInputs :
       \E y \in run_monitoring_cycle(MonitorCtx(in.sudo), Load(store), in.h) :
         /\ MonitorCommit(y)
         /\ lastOp' = [op |-> "run_monitoring_cycle", preIface |-> hIface,
                       trace |-> y.trace,
                       before |-> [last_network_id |-> last_network_id,
                                   reconnect_attempts |-> reconnect_attempts,
                                   store |-> store]]
    /\ UNCHANGED <<activeNet, hConfigs, daemon, appVars, keys, changes, waited>>

InitRoam ==
    /\ hIface \in Tunnels \cup {NONE}
    /\ hKs = FALSE
    /\ activeNet = "home"
    /\ hConfigs = Tunnels
    /\ store \in MonitorStores
    /\ AppBoot
    /\ MonitorStopped
    /\ lastOp = Idle

NextRoam ==
    \/ StartMonitoring
    \/ RoamCycle
    \/ NetworkChanges
    \/ TunnelDrops

SpecRoam == InitRoam /\ [][NextRoam]_vars

----------------------------------------------------------------------------
(* The TUI of a user who presses only 't', on a host whose file holds rules *)
(* of every mode                                                            *)

MaxTunnelKeys == 2  \* key presses per run of a user who presses only 't'

TunnelKey(i) == KeyPressWithin(MaxTunnelKeys) /\ CycleNetworkTunnel(i)

InitTunnelKeys ==
    /\ hIface \in {"t1", NONE}
    /\ hKs = FALSE
    /\ activeNet = "home"
    /\ hConfigs = Tunnels
    /\ store \in MonitorStores
    /\ AppBoot
    /\ MonitorStopped
    /\ lastOp = Idle

NextTunnelKeys ==
    /\ \/ AppNew
       \/ Tick
       \/ Advance
       \/ \E i \in 1..Len(networks) : TunnelKey(i)
    /\ UNCHANGED monitorVars

SpecTunnelKeys == InitTunnelKeys /\ [][NextTunnelKeys]_vars

----------------------------------------------------------------------------
(* The config file as AppConfig::load finds it: there or not, its bytes     *)
(* UTF-8 or not, and its text the document another process has written, or  *)
(* is still writing.                                                        *)

NoFile == [exists |-> FALSE, utf8 |-> TRUE, content |-> <<>>]
File(doc) == [exists |-> TRUE, utf8 |-> TRUE, content |-> doc]

\* the file while std::fs::write of the document is under way: the text ends
\* in the last [[known_tunnels]] table, after its name
Torn(doc) ==
    LET known == doc.known_tunnels
        n == Len(known)
    IN  File([doc EXCEPT !.known_tunnels =
                 [i \in 1..n |-> IF i < n THEN known[i] ELSE [name |-> known[n].name]]])

\* std::fs::read_to_string is Ok
Reads(file) == file.utf8

\* toml::from_str::<AppConfig> is Ok: the fields without a serde default are
\* there
Parses(doc) ==
    /\ \A i \in 1..Len(OrDefault(doc, "network_rules", <<>>)) :
           "identifier" \in DOMAIN doc.network_rules[i]
    /\ \A i \in 1..Len(OrDefault(doc, "known_tunnels", <<>>)) :
           {"name", "protocol"} \subseteq DOMAIN doc.known_tunnels[i]

\* AppConfig::load: the config returned and the file left; the config a file
\* that is not there, does not read or does not parse gives is the default,
\* and the default is saved
AppConfig_load(file) ==
    IF file.exists /\ Reads(file) /\ Parses(file.content)
    THEN [config |-> from_str(file.content), file |-> file]
    ELSE [config |-> DefaultConfig, file |-> File(save(DefaultConfig))]

\* the configs another process saves
SavedConfigs == { c \in Configs : Len(c.network_rules) = 1 }

Files ==
    {NoFile}
    \cup { File(save(c)) : c \in SavedConfigs }
    \cup { Torn(save(c)) : c \in {s \in SavedConfigs : s.known_tunnels # <<>>} }
    \cup { [File(save(c)) EXCEPT !.utf8 = FALSE] : c \in SavedConfigs }

\* the reload at the top of a tick of start_monitoring, and App::new
Reload ==
    /\ LET r == AppConfig_load(store)
       IN  /\ config' = r.config
           /\ store' = r.file
    /\ network_rules' = config'.network_rules
    /\ lastOp' = [op |-> "load", file |-> store]
    /\ UNCHANGED <<hIface, hKs, activeNet, hConfigs, phase, popup, networks, tunnels,
                   vpn_status, kill_switch_enabled, pending_change, countdown_start,
                   countdown_seconds, keys, changes, waited, monitorVars>>

\* another process writes the file, or is writing it, or removes it
FileChanges ==
    /\ store' \in Files \ {store}
    /\ lastOp' = Idle
    /\ UNCHANGED <<hIface, hKs, activeNet, hConfigs, appVars, keys, changes, waited,
                   monitorVars>>

InitLoad ==
    /\ hIface = NONE
    /\ hKs = FALSE
    /\ activeNet = NONE
    /\ hConfigs = {}
    /\ store \in Files
    /\ phase = "memory"
    /\ popup = "None"
    /\ networks = <<>>
    /\ tunnels = <<>>
    /\ vpn_status = [connected |-> FALSE, interface |-> NONE]
    /\ config = DefaultConfig
    /\ network_rules = config.network_rules
    /\ kill_switch_enabled = FALSE
    /\ pending_change = NoChange
    /\ countdown_start = NoInstant
    /\ countdown_seconds = 0
    /\ keys = 0
    /\ changes = <<>>
    /\ waited = NoInstant
    /\ MonitorStopped
    /\ lastOp = Idle

NextLoad == Reload \/ FileChanges

SpecLoad == InitLoad /\ [][NextLoad]_vars

----------------------------------------------------------------------------
(* The daemon and the TUI on one host and one config file: the daemon has   *)
(* run its first round on the home network, for which the file holds a      *)
(* Session rule; the TUI starts, its user cycles the rules of the networks   *)
(* the TUI shows as not attached, the host roams; sudo runs the helper and  *)
(* the tunnel, when up, is healthy                                          *)

MaxSharedKeys == 1  \* key presses per run of a user who presses 'r'

SharedKey(i) == ~networks[i].connected /\ KeyPressWithin(MaxSharedKeys) /\ CycleTunnelRule(i)

Healthy == [routing_ok |-> TRUE, handshake_stale |-> FALSE, has_internet |-> TRUE]

\* one round of the loop without a resume: run_monitoring_cycle
SharedCycle ==
    /\ daemon = "running"
    /\ \E elapsed \in Elapsed, up \in Uptimes :
         /\ ~just_resumed(elapsed, up, last_uptime)
         /\ last_uptime' = up
    /\ \E y \in run_monitoring_cycle(MonitorCtx("ready"), Load(store), Healthy) :
         /\ MonitorCommit(y)
         /\ lastOp' = [op |-> "run_monitoring_cycle", preIface |-> hIface, key |-> NoKey]
    /\ UNCHANGED <<activeNet, hConfigs, daemon, appVars, keys, changes, waited>>

SharedStores ==
    { AppConfig(<<NetworkRule("wifi:home", "t2", FALSE, FALSE, TRUE)>> \o b, NONE, FALSE) :
        b \in { <<>>, <<NetworkRule("wifi:cafe", "t1", FALSE, TRUE, FALSE)>> } }

InitShared ==
    /\ hIface \in {"t2", NONE}
    /\ hKs = FALSE
    /\ activeNet = "home"
    /\ hConfigs = Tunnels
    /\ store \in SharedStores
    /\ AppBoot
    /\ daemon = "running"
    /\ last_network_id = "wifi:home"
    /\ last_vpn_connected = (hIface # NONE)
    /\ last_vpn_interface = hIface
    /\ health_check_counter = CHECK_INTERVAL_SECS
    /\ reconnect_attempts = 0
    /\ last_uptime \in Uptimes
    /\ lastOp = Idle

NextShared ==
    \/ /\ \/ AppNew
          \/ Tick
          \/ \E i \in 1..Len(networks) : SharedKey(i)
       /\ UNCHANGED monitorVars
    \/ SharedCycle
    \/ NetworkChanges

SpecShared == InitShared /\ [][NextShared]_vars

----------------------------------------------------------------------------
(* Properties.  They read the handler of the last step from lastOp: what    *)
(* held when it started (preIface, preKs, preFlag, preStatus) and the       *)
(* events it produced, in order (trace).                                    *)

HelperVerbs ==
    {"connect", "disconnect", "killswitch-on", "killswitch-off", "killswitch-status"}

\* every helper call of a trace succeeded
AllSucceed(tr) == \A i \in 1..Len(tr) : tr[i].verb \in HelperVerbs => tr[i].res = "ok"

\* every index of A is before every index of B
Before(A, B) == \A a \in A, b \in B : a < b

\* whether the helper holds the kill switch when event i of a trace is issued
ArmedAt(tr, i, armedBefore) ==
    LET sets == {j \in 1..(i-1) : tr[j].verb \in {"killswitch-on", "killswitch-off"}
                                  /\ tr[j].res = "ok"}
    IN  IF sets = {} THEN armedBefore
        ELSE LET j == CHOOSE k \in sets : \A m \in sets : m <= k
             IN  tr[j].verb = "killswitch-on"

\* the arbiter has applied Reconnect(T2) while connected to another tunnel with
\* the switch armed (flag set, switch installed), T2 has the kill switch
\* setting, and every helper call has succeeded
ReconnectArmedAllOk ==
    /\ lastOp.op = "apply"
    /\ lastOp.action = "Reconnect"
    /\ lastOp.preStatus.connected
    /\ lastOp.preIface \notin {NONE, lastOp.tunnel}
    /\ lastOp.preFlag
    /\ lastOp.preKs
    /\ lastOp.tunnelKs
    /\ AllSucceed(lastOp.trace)

\* C1: when Reconnect(T2) is applied while connected to T1 with the kill switch
\* armed, T2 has the kill switch setting and every helper call succeeds, the
\* verbs killswitch-off, disconnect, connect T2, killswitch-on are all issued,
\* killswitch-off before every disconnect, every disconnect before connect T2,
\* and killswitch-on only after connect T2 (which succeeded).
C1_ReconnectOrder ==
    ReconnectArmedAllOk =>
        LET tr == lastOp.trace
            off == Indices(tr, "killswitch-off")
            dis == Indices(tr, "disconnect")
            con == {i \in Indices(tr, "connect") : tr[i].arg = lastOp.tunnel}
            on == Indices(tr, "killswitch-on")
        IN  /\ off # {} /\ dis # {} /\ con # {} /\ on # {}
            /\ Indices(tr, "connect") = con
            /\ Before(off, dis)
            /\ Before(dis, con)
            /\ Before(con, on)

C1_Witness ==
    /\ ReconnectArmedAllOk
    /\ hIface = lastOp.tunnel
    /\ hKs

\* the engine handlers
MonitorOps == {"run_monitoring_cycle", "handle_resume"}

\* C2: the engine never issues disconnect while the helper holds the kill
\* switch; killswitch-off has completed before every disconnect it issues.
C2_EngineDisablesFirst ==
    lastOp.op \in MonitorOps =>
        \A i \in Indices(lastOp.trace, "disconnect") :
            ~ArmedAt(lastOp.trace, i, lastOp.preKs)

\* an engine round has taken the tunnel down and left the switch installed
C2_ArmedNoTunnel ==
    /\ lastOp.op \in MonitorOps
    /\ lastOp.preKs /\ lastOp.preIface # NONE
    /\ Indices(lastOp.trace, "killswitch-off") = {}
    /\ hKs /\ hIface = NONE

\* the TUI has connected to a tunnel while another one was up and the switch
\* armed
ConnectWhileArmed ==
    /\ \/ lastOp.op = "use_tunnel_now"
       \/ lastOp.op = "apply" /\ lastOp.action = "Connect"
    /\ lastOp.tunnel # NONE
    /\ lastOp.preStatus.connected
    /\ lastOp.preIface \notin {NONE, lastOp.tunnel}
    /\ lastOp.preFlag
    /\ lastOp.preKs

\* C3: connecting to tunnel t from the TUI (applied Connect(t), or 'use tunnel
\* now' on t) while another tunnel is connected and the kill switch is armed
\* issues killswitch-off before every disconnect and before connect t.
C3_ConnectDisablesFirst ==
    ConnectWhileArmed =>
        LET tr == lastOp.trace
            off == Indices(tr, "killswitch-off")
        IN  /\ off # {}
            /\ \E o \in off : Before({o}, Indices(tr, "disconnect") \cup Indices(tr, "connect"))

\* an applied Connect has brought the other tunnel down with the switch installed
C3_ConnectSkipsDisable ==
    /\ ConnectWhileArmed
    /\ lastOp.op = "apply"
    /\ Indices(lastOp.trace, "killswitch-off") = {}
    /\ Indices(lastOp.trace, "disconnect") # {}

\* the operations that connect and then arm: the Connect and Reconnect actions,
\* 'use tunnel now', and App::new when no tunnel is up (the auto-reconnect)
ConnectingOp ==
    \/ lastOp.op = "use_tunnel_now"
    \/ lastOp.op = "apply" /\ lastOp.action \in {"Connect", "Reconnect"}
    \/ lastOp.op = "new" /\ lastOp.preIface = NONE

C5_DisableOkMeansOff ==
    \A i \in Indices(lastOp.trace, "disable()") :
        lastOp.trace[i].res = "ok" => lastOp.trace[i].arg = "disabled"

\* disable() has returned Ok with the switch installed, its status call having
\* timed out
C5_OkWhileEnabled ==
    \E i \in Indices(lastOp.trace, "disable()") :
        /\ lastOp.trace[i].res = "ok"
        /\ lastOp.trace[i].arg = "enabled"
        /\ lastOp.trace[i-1].verb = "killswitch-status"
        /\ lastOp.trace[i-1].res = "timeout"

\* the operations that disable before they disconnect
DisablingOp ==
    \/ lastOp.op = "use_tunnel_now"
    \/ lastOp.op = "apply" /\ lastOp.action \in {"Disconnect", "Reconnect"}

\* C6: when disable() fails after its retry in Disconnect, Reconnect or 'use
\* tunnel now', the failure is shown to the user and no disconnect is issued
\* after it in that operation.
C6_FailedDisableStops ==
    DisablingOp =>
        \A i \in Indices(lastOp.trace, "disable()") :
            lastOp.trace[i].res = "err" =>
                /\ \A d \in Indices(lastOp.trace, "disconnect") : d < i
                /\ \E m \in Indices(lastOp.trace, "set_status") :
                       m > i /\ lastOp.trace[m].arg = "Error"

\* disable() has failed, a disconnect has followed and succeeded, and the
\* host is left with the switch installed and no tunnel
C6_DisconnectAfterFailure ==
    /\ DisablingOp
    /\ \E i \in Indices(lastOp.trace, "disable()") :
         /\ lastOp.trace[i].res = "err"
         /\ \E d \in Indices(lastOp.trace, "disconnect") :
                d > i /\ lastOp.trace[d].res = "ok"
    /\ hKs /\ hIface = NONE

\* the TUI operations that touch the kill switch
TouchesKillSwitch ==
    /\ lastOp.op \in {"new", "apply", "use_tunnel_now"}
    /\ \E i \in 1..Len(lastOp.trace) :
         lastOp.trace[i].verb \in {"killswitch-on", "killswitch-off", "killswitch-status"}

\* C7: after every TUI operation that touches the kill switch, the flag
\* kill_switch_enabled agrees with the helper's kill switch.
C7_FlagAgrees ==
    TouchesKillSwitch => (kill_switch_enabled <=> hKs)

\* an operation has ended with the flag false after a failed disable(), the
\* switch still installed
C7_FlagFalseWhileEnabled ==
    /\ TouchesKillSwitch
    /\ \E i \in Indices(lastOp.trace, "disable()") : lastOp.trace[i].res = "err"
    /\ ~kill_switch_enabled
    /\ hKs

\* the changes that were scheduled and are neither applied, replaced nor cancelled
Pending == {i \in 1..Len(changes) : changes[i].why = "live" /\ changes[i].runs = 0}

EscWhilePending ==
    /\ popup = "None"
    /\ is_some(pending_change)
    /\ lastOp'.op = "esc"

\* C10: Esc while a change is pending and no popup is open clears the pending
\* change, issues no helper verb, and leaves the rule list and the store as
\* they are; a cancelled change is never executed.
C10_EscCancels ==
    /\ [](\A i \in 1..Len(changes) : changes[i].why = "cancelled" => changes[i].runs = 0)
    /\ [][EscWhilePending =>
            /\ ~is_some(pending_change')
            /\ countdown_start' = NoInstant
            /\ changes'[pending_change.id].why = "cancelled"
            /\ \A i \in 1..Len(lastOp'.trace) : lastOp'.trace[i].verb \notin HelperVerbs
            /\ network_rules' = network_rules
            /\ store' = store
            /\ config' = config
            /\ UNCHANGED <<hIface, hKs>>]_vars

C10_Witness ==
    /\ lastOp.op = "esc"
    /\ lastOp.action = "Reconnect"
    /\ changes[lastOp.id].why = "cancelled"
    /\ RuleIdx(network_rules, "wifi:home") # 0
    /\ RuleIdx(store.network_rules, "wifi:home") # 0
    /\ ~is_some(pending_change)

\* the mode that follows a mode in the rule cycle
NextKind(k) ==
    CASE k = "None"    -> "Always"
      [] k = "Always"  -> "Never"
      [] k = "Never"   -> "Session"
      [] k = "Session" -> "None"

\* the last step was a press of 'r'
RulePress == lastOp.key.name = "r"

InactiveRulePress == lastOp'.key.name = "r" /\ ~lastOp'.key.active

\* C13: a press of 'r' on a network that is not the active one schedules no
\* change and leaves the pending change and the countdown as they are.
C13_InactiveLeavesSlot ==
    [][InactiveRulePress =>
          /\ pending_change' = pending_change
          /\ countdown_start' = countdown_start
          /\ countdown_seconds' = countdown_seconds
          /\ changes' = changes]_vars

\* the rule of a network that is not active has gone from Never to Session
\* while a change was pending
C13_Witness ==
    /\ RulePress
    /\ ~lastOp.key.active
    /\ lastOp.key.was = "Never"
    /\ is_some(pending_change)
    /\ countdown_start # NoInstant

\* the identifier of the attached network, as the engine derives it
CurrentId == IF activeNet = NONE THEN NONE ELSE identifier(NetworkInfo(activeNet, TRUE))

\* the last step was the engine handling a resume
Resumed == lastOp.op = "handle_resume"

\* whether a probe of the trace returned res
Observed(tr, probe, res) == \E i \in Indices(tr, probe) : tr[i].res = res

\* C14: after the engine has handled a resume, however the recovery ended, the
\* reconnect-attempt counter is zero.
C14_ResumeResetsAttempts ==
    Resumed => reconnect_attempts = 0

\* a resume on a host without internet has left the counter as it was
C14_AttemptsKept ==
    /\ Resumed
    /\ Observed(lastOp.trace, "check_connectivity", "no internet")
    /\ reconnect_attempts > 0

\* the step is the engine handling a resume while tunnel T is up and the network
\* it has recorded, to which the host is still attached, has a Session rule
ResumeInSession ==
    /\ lastOp'.op = "handle_resume"
    /\ hIface # NONE
    /\ last_network_id # NONE
    /\ last_network_id = CurrentId
    /\ RuleKind(store.network_rules, last_network_id) = "Session"

\* C15: when the engine handles a resume while tunnel T is up and the current
\* network has a Session rule, the rule is gone from the store and T is down
\* when the handler returns.
C15_ResumeEndsSession ==
    [][ResumeInSession =>
          /\ RuleIdx(store'.network_rules, last_network_id) = 0
          /\ hIface' = NONE]_vars

\* a resume without a ready network has left the Session rule and the tunnel
C15_SessionSurvives ==
    /\ Resumed
    /\ Observed(lastOp.trace, "wait_for_network_ready", "timeout")
    /\ last_network_id = CurrentId
    /\ RuleKind(store.network_rules, CurrentId) = "Session"
    /\ hIface # NONE /\ hIface = lastOp.preIface

\* the rule of the attached network and the tunnel it expects
CurrentRule == FindRule(Load(store), CurrentId)
ExpectedTunnel == OrElse(CurrentRule.tunnel_name, store.default_profile)

\* resume recovery has evaluated an Always rule that has an expected tunnel
ResumedUnderAlways ==
    /\ Resumed
    /\ Observed(lastOp.trace, "check_connectivity", "internet")
    /\ CurrentId # NONE
    /\ CurrentRule.always_vpn
    /\ ExpectedTunnel # NONE

\* the reconnect procedure for tunnel t: disconnect, then connect t
Reconnects(tr, t) ==
    \E d \in Indices(tr, "disconnect"), c \in Indices(tr, "connect") :
        d < c /\ tr[c].arg = t

\* the result of the health verification made before any helper call
VerifiedFirst(tr, res) ==
    \E v \in Indices(tr, "verify_vpn_health") :
        /\ tr[v].res = res
        /\ \A i \in 1..(v-1) : tr[i].verb \notin HelperVerbs

\* C16: in resume recovery under an Always rule with an expected tunnel, the
\* engine runs the reconnect procedure when no tunnel is up or the tunnel that
\* is up is not the expected one; otherwise it verifies the health, reconnects
\* exactly when the verification fails, and issues no helper call when it
\* succeeds.
C16_ResumeAlways ==
    ResumedUnderAlways =>
        LET tr == lastOp.trace
        IN  IF lastOp.preIface # ExpectedTunnel
            THEN Reconnects(tr, ExpectedTunnel)
            ELSE /\ VerifiedFirst(tr, "healthy") \/ VerifiedFirst(tr, "unhealthy")
                 /\ VerifiedFirst(tr, "unhealthy") <=> Reconnects(tr, ExpectedTunnel)
                 /\ VerifiedFirst(tr, "healthy") =>
                        \A i \in 1..Len(tr) : tr[i].verb \notin HelperVerbs

\* a resume has found another tunnel up than the Always rule expects and has
\* brought the expected one up
C16_Witness ==
    /\ ResumedUnderAlways
    /\ lastOp.preIface \notin {NONE, ExpectedTunnel}
    /\ Reconnects(lastOp.trace, ExpectedTunnel)
    /\ hIface = ExpectedTunnel

\* C17: whenever the network identifier the engine has recorded changes from A
\* to another value, in a normal round or in a resume, the store holds no
\* Session rule for A afterwards.
C17_SessionEndsWithNetwork ==
    [][(last_network_id # NONE /\ last_network_id' # last_network_id) =>
          RuleKind(store'.network_rules, last_network_id) # "Session"]_vars

\* a resume on another network has replaced the recorded identifier and left
\* the Session rule of the old network in the store
C17_SessionSurvivesResume ==
    /\ Resumed
    /\ \E i \in 1..Len(Ssids) :
         /\ identifier(NetworkInfo(Ssids[i], TRUE)) # last_network_id
         /\ RuleKind(store.network_rules, identifier(NetworkInfo(Ssids[i], TRUE))) = "Session"
    /\ Observed(lastOp.trace, "check_connectivity", "internet")

\* the attached network has an Always rule that names a tunnel the host has a
\* config for, and the daemon runs
AlwaysRuleActive ==
    /\ daemon = "running"
    /\ CurrentId # NONE
    /\ CurrentRule.always_vpn
    /\ CurrentRule.tunnel_name \in hConfigs

\* the last step was an engine round in which a helper call did not succeed or
\* the host was found without network or internet
EngineHindered ==
    /\ lastOp.op \in MonitorOps
    /\ \/ ~AllSucceed(lastOp.trace)
       \/ Observed(lastOp.trace, "wait_for_network_ready", "timeout")
       \/ Observed(lastOp.trace, "check_connectivity", "no internet")

\* C18: while the attached network has an Always rule naming an existing
\* tunnel, the host has internet and the helper succeeds, the engine
\* eventually has that tunnel up, from any state.
C18_AlwaysComesUp ==
    (AlwaysRuleActive /\ hIface # CurrentRule.tunnel_name)
        ~> \/ AlwaysRuleActive /\ hIface = CurrentRule.tunnel_name
           \/ ~AlwaysRuleActive
           \/ EngineHindered

\* an Always rule was set for the network the daemon has already recorded, no
\* tunnel is up and the daemon remembers none
C18_RuleSetWhileAttached ==
    /\ AlwaysRuleActive
    /\ hIface = NONE
    /\ last_network_id = CurrentId
    /\ ~last_vpn_connected
    /\ lastOp.op = "run_monitoring_cycle"
    /\ lastOp.trace = <<>>

\* a step that ran list_profiles: App::new or App::refresh
ListedProfiles == lastOp'.op \in {"new", "refresh"}

\* the names of the wireguard entries of a tunnel-info list
WireguardNames(known) ==
    {known[i].name : i \in {j \in 1..Len(known) : known[j].protocol = "wireguard"}}

\* C19: list_profiles removes a persisted wireguard entry, and rewrites the
\* store, iff config-list succeeded and the entry's name is neither in its
\* output nor a live interface; every other entry stays, in order.  When
\* config-list fails or times out the store is unchanged and every persisted
\* wireguard entry is returned.
C19_PrunesIffListed ==
    [][ListedProfiles =>
        LET listed == lastOp'.trace[1].verb = "config-list" /\ lastOp'.trace[1].res = "ok"
            valid == hConfigs \cup ({hIface} \ {NONE})
            orphan(t) == t.protocol = "wireguard" /\ t.name \notin valid
            stays(t) == ~(listed /\ orphan(t))
            kept == SelectSeq(store.known_tunnels, stays)
        IN  /\ store' = [store EXCEPT !.known_tunnels = kept]
            /\ (store' # store) <=>
                    listed /\ \E i \in 1..Len(store.known_tunnels) : orphan(store.known_tunnels[i])
            /\ ~listed =>
                    /\ store' = store
                    /\ \A n \in WireguardNames(store.known_tunnels) :
                          \E i \in 1..Len(tunnels') : tunnels'[i] = n]_vars

\* a refresh whose config-list succeeded has taken the orphaned wireguard entry
\* t3 out of the file (the App read its own copy before), and has left the
\* entry of another protocol and the entry of the live tunnel t2, which
\* has no config file
C19_Witness ==
    /\ lastOp.op = "refresh"
    /\ lastOp.trace[1] = Ev("config-list", NONE, "ok")
    /\ hIface = "t2" /\ "t2" \notin hConfigs
    /\ config.known_tunnels = AllKnown
    /\ store.known_tunnels = <<OtherTunnel("t3"), TunnelInfo("t2", TRUE)>>

\* what the round trip is said to drop: a rule whose identifier is empty, has
\* at most 5 characters, or holds a control character
SaidDropped(r) ==
    \/ r.identifier = <<>>
    \/ Len(r.identifier) <= 5
    \/ \E i \in 1..Len(r.identifier) : is_control(r.identifier[i])

\* the config a round trip is said to give back
SaidRoundTrip(cfg) ==
    LET stays(r) == ~SaidDropped(r)
        kept == SelectSeq(cfg.network_rules, stays)
        norm(r) == IF r.tunnel_name = Some(<<>>) THEN [r EXCEPT !.tunnel_name = None] ELSE r
    IN  [cfg EXCEPT !.network_rules = [i \in 1..Len(kept) |-> norm(kept[i])]]

\* C20: for every configuration, save followed by load gives the configuration
\* with its empty tunnel names absent and without the rules whose identifier
\* is empty, has at most 5 characters or holds a control character, and with
\* nothing else changed.
C20_RoundTrip ==
    [][phase = "saved" /\ phase' = "loaded" => config' = SaidRoundTrip(config)]_vars

\* a rule whose identifier is six characters long and ends in a line feed has
\* come back from the file
C20_ControlCharacterKept ==
    /\ phase = "loaded"
    /\ \E i \in 1..Len(config.network_rules) :
         config.network_rules[i].identifier =
             <<LatinA, LatinA, LatinA, LatinA, LatinA, LF>>

\* a call that was watched until the timeout fired
TimedOut(call) == call.took > SUDO_TIMEOUT

\* a call whose helper ran and exited non-zero in time
Refused(call) == call.spawned /\ call.took <= SUDO_TIMEOUT /\ call.code # 0

\* C21: for every verb, what a call that exceeds the timeout returns differs
\* from what any call that ran and exited non-zero returns.
C21_TimeoutIsNotRefusal ==
    lastOp.op = "returned" /\ TimedOut(lastOp.call) =>
        \A c \in HelperCalls :
            Refused(c) /\ c.verb = lastOp.call.verb =>
                lastOp.result # helper_returns(c.spawned, c.took, c.code)

\* killswitch-off was watched for more than 5 s and the call has returned
C21_Witness ==
    /\ lastOp.op = "returned"
    /\ lastOp.call.verb = "killswitch-off"
    /\ lastOp.call.took = SUDO_TIMEOUT + 1
    /\ lastOp.result.is = "Err"

\* C22: check() reports just_resumed exactly when the gap since the previous
\* check (or construction, or reset) is more than 3 times the interval, or the
\* uptime read is more than 10 s below the previous reading; a check that
\* follows immediately, the first one included, with uptime not below the
\* previous reading reports false.
C22_JustResumed ==
    lastOp.op = "check" =>
        /\ lastOp.just_resumed <=>
               \/ as_millis(lastOp.elapsed) > 3 * 1000 * CHECK_INTERVAL_SECS
               \/ lastOp.uptime + 10 < lastOp.before
        /\ lastOp.elapsed = 0 /\ lastOp.uptime >= lastOp.before => ~lastOp.just_resumed

\* a check half a second past three intervals, uptime having grown, reports a
\* resume
C22_Witness ==
    /\ lastOp.op = "check"
    /\ lastOp.elapsed = 6 * CHECK_INTERVAL_SECS + 1
    /\ lastOp.uptime > lastOp.before
    /\ lastOp.just_resumed

\* a handshake phrase mentions a word, in any case
Mentions(h, word) == contains_str(to_lowercase(h), word)

\* the parts of a phrase that are numbers
NumberParts(h) ==
    {i \in 1..Len(split_whitespace(h)) : parse_u32(split_whitespace(h)[i]) # None}

\* the phrase is "N minutes ..": a number N of minutes, then the word
StartsWithMinutes(h) ==
    /\ Len(split_whitespace(h)) >= 2
    /\ 1 \in NumberParts(h)
    /\ Mentions(split_whitespace(h)[2], Minute)

\* nothing can be read from the phrase: it mentions neither hours nor days, it
\* is not seconds alone, and if it mentions minutes it holds no number
Unparseable(h) ==
    /\ ~Mentions(h, Hour) /\ ~Mentions(h, Day)
    /\ ~(Mentions(h, Second) /\ ~Mentions(h, Minute))
    /\ ~(Mentions(h, Minute) /\ NumberParts(h) # {})

\* C23: is_handshake_stale is false for every phrase that mentions seconds and
\* neither minutes, hours nor days; true for every phrase that mentions hours
\* or days; for "N minutes .." (N a number of minutes as u32 reads it, no hours
\* or days mentioned) true iff N >= 3; and true for every phrase it cannot
\* parse.
C23_HandshakeStale ==
    lastOp.op = "status" =>
        LET h == lastOp.handshake
            stale == lastOp.handshake_stale
        IN  /\ Mentions(h, Second) /\ ~Mentions(h, Minute) /\ ~Mentions(h, Hour)
                 /\ ~Mentions(h, Day) => ~stale
            /\ Mentions(h, Hour) \/ Mentions(h, Day) => stale
            /\ StartsWithMinutes(h) /\ ~Mentions(h, Hour) /\ ~Mentions(h, Day) =>
                 (stale <=> parse_u32(split_whitespace(h)[1])[1] >= 3)
            /\ Unparseable(h) => stale

\* "3 Minutes, 59 seconds" has been read as stale
C23_Witness ==
    /\ lastOp.op = "status"
    /\ lastOp.handshake = Phrase(<<<<51>>, <<77, 105, 110, 117, 116, 101, 115, 44>>, <<53, 57>>, <<115, 101, 99, 111, 110, 100, 115>>>>)
    /\ lastOp.handshake_stale

\* the attempt numbers of the reconnect procedures a handler ran
Attempts(tr) == {tr[i].res : i \in Indices(tr, "reconnect_vpn")}

\* the last step was a normal round of the loop
Cycled == lastOp.op = "run_monitoring_cycle"

\* C24: between two rounds the reconnect-attempt counter is at most
\* MAX_RECONNECT_ATTEMPTS, and a reconnect procedure started by the liveness
\* check is the first, second or third since the counter was reset: none
\* starts while the counter is 3.
C24_AttemptsBounded ==
    /\ reconnect_attempts <= MAX_RECONNECT_ATTEMPTS
    /\ Cycled =>
         /\ Attempts(lastOp.trace) \subseteq {"1", "2", "3"}
         /\ Cardinality(Indices(lastOp.trace, "reconnect_vpn")) <= 1

\* the liveness check has run the third reconnect procedure in a row and the
\* counter is 3
C24_Witness ==
    /\ Cycled
    /\ Attempts(lastOp.trace) = {"3"}
    /\ reconnect_attempts = MAX_RECONNECT_ATTEMPTS

\* the engine has sent the critical 'VPN failed' notification in the last step
NotifiedFailure == Observed(lastOp.trace, "notify_vpn_failed", "sent")

\* C25: whenever the reconnect-attempt counter has reached MAX, the engine
\* eventually sends the 'VPN failed' notification and resets the counter, unless
\* the tunnel is found connected and healthy or the counter is reset otherwise:
\* the counter never stays at MAX for ever without a notification.
C25_GivesUpLoudly ==
    (reconnect_attempts = MAX_RECONNECT_ATTEMPTS)
        ~> \/ NotifiedFailure /\ reconnect_attempts = 0
           \/ reconnect_attempts # MAX_RECONNECT_ATTEMPTS
           \/ Observed(lastOp.trace, "verify_vpn_health", "healthy")

\* a liveness check has found the tunnel up and unhealthy with the counter at
\* MAX, and has neither reconnected, notified nor reset the counter
C25_SilentAtLimit ==
    /\ Cycled
    /\ Observed(lastOp.trace, "verify_vpn_health", "unhealthy")
    /\ Attempts(lastOp.trace) = {}
    /\ ~NotifiedFailure
    /\ reconnect_attempts = MAX_RECONNECT_ATTEMPTS
    /\ last_vpn_connected

\* the liveness check has found the tunnel dropped, has run reconnect attempt
\* n, and the attempt has failed: the tunnel is down and the counter is n
DropAttemptFailed(n) ==
    /\ Cycled
    /\ lastOp.preIface = NONE
    /\ Attempts(lastOp.trace) = {ToString(n)}
    /\ hIface = NONE
    /\ reconnect_attempts = n

\* the engine has made attempt n, or the tunnel is no longer down, or the
\* counter has left n - 1
Retried(n) ==
    \/ Cycled /\ Attempts(lastOp.trace) = {ToString(n)}
    \/ hIface # NONE
    \/ reconnect_attempts # n - 1

\* C26: after an unexpected drop on a network with an Always or Session rule,
\* when a reconnect attempt fails with the counter below 3, the engine makes
\* the next attempt at a later liveness check while the tunnel remains down.
C26_RetriesWhileDown ==
    /\ DropAttemptFailed(1) ~> Retried(2)
    /\ DropAttemptFailed(2) ~> Retried(3)

\* a liveness check has run with the tunnel down after a failed first attempt
\* and has made no attempt: the engine remembers the tunnel as not connected
C26_NoRetry ==
    /\ Cycled
    /\ health_check_counter = 0
    /\ lastOp.preIface = NONE /\ hIface = NONE
    /\ Attempts(lastOp.trace) = {}
    /\ reconnect_attempts = 1
    /\ ~last_vpn_connected
    /\ CurrentRule.always_vpn \/ CurrentRule.session_vpn

\* the liveness check has run reconnect attempt n and the attempt has failed:
\* the counter is still n
AttemptFailed(n) ==
    /\ Cycled
    /\ Attempts(lastOp.trace) = {ToString(n)}
    /\ reconnect_attempts = n

\* the last thing the handler did was to sleep ms
SleptLast(ms) ==
    /\ lastOp.trace # <<>>
    /\ lastOp.trace[Len(lastOp.trace)] = Ev("sleep", ToString(ms), "done")

\* the sleeps of the reconnect procedure other than the backoff: 500 ms after
\* the disconnect, 1 s after the connect
SettleSleeps == {"500", "1000"}

\* the handler has slept no backoff
NoBackoff ==
    \A i \in Indices(lastOp.trace, "sleep") : lastOp.trace[i].arg \in SettleSleeps

DisableEvents(tr, i) ==
    LET calls == {c \in Indices(tr, "disable") : c < i}
        call == CHOOSE c \in calls : \A d \in calls : d <= c
    IN  SubSeq(tr, call + 1, i - 1)

\* killswitch-status has run and printed "enabled"
ReportsEnabled(e) == e.verb = "killswitch-status" /\ e.res = "ok" /\ e.arg = "enabled"

\* C28: disable() issues killswitch-off once or twice, the second time only
\* after killswitch-status reported "enabled" following the first, and it
\* returns an error iff killswitch-status still reports "enabled" after the
\* second: a non-zero exit of killswitch-off alone never makes it fail.
C28_DisableRetriesOnce ==
    \A i \in Indices(lastOp.trace, "disable()") :
        LET ev == DisableEvents(lastOp.trace, i)
            offs == Indices(ev, "killswitch-off")
        IN  /\ offs \in {{1}, {1, 3}}
            /\ 3 \in offs => ReportsEnabled(ev[2])
            /\ lastOp.trace[i].res = "err" <=>
                   3 \in offs /\ Len(ev) = 4 /\ ReportsEnabled(ev[4])

\* both killswitch-off calls of a disable() exited non-zero, killswitch-status
\* printed "enabled" after each, and disable() has returned an error
C28_Witness ==
    \E i \in Indices(lastOp.trace, "disable()") :
        /\ DisableEvents(lastOp.trace, i) =
               <<Ev("killswitch-off", NONE, "refused"), Ev("killswitch-status", "enabled", "ok"),
                 Ev("killswitch-off", NONE, "refused"), Ev("killswitch-status", "enabled", "ok")>>
        /\ lastOp.trace[i].res = "err"

\* the k-th change scheduled is in the slot: it has been neither applied,
\* replaced nor cancelled
Waiting(k) ==
    /\ Len(changes) >= k
    /\ changes[k].why = "live"
    /\ changes[k].runs = 0

\* tick has applied the k-th change and the slot is empty, or the change has
\* been replaced or cancelled
AppliedOrGone(k) ==
    \/ lastOp.op = "apply" /\ lastOp.id = k /\ changes[k].runs = 1 /\ ~is_some(pending_change)
    \/ Len(changes) >= k /\ changes[k].why # "live"

\* C29: a pending change that is neither cancelled nor replaced is eventually
\* applied by tick, which runs its action and empties the slot, whatever the
\* helper calls made while applying it return.
C29_PendingIsApplied ==
    \A k \in 1..MaxChangeKeys : Waiting(k) ~> AppliedOrGone(k)

\* tick has applied a change while sudo was blocked: its helper call timed out,
\* and the slot is empty
C29_Witness ==
    /\ lastOp.op = "apply"
    /\ \E i \in 1..Len(lastOp.trace) : lastOp.trace[i].res = "timeout"
    /\ changes[lastOp.id].runs = 1
    /\ changes[lastOp.id].why = "live"
    /\ ~is_some(pending_change)

\* at most one rule per network identifier
OneRulePerIdentifier(rules) ==
    \A i, j \in 1..Len(rules) : rules[i].identifier = rules[j].identifier => i = j

\* every rule has exactly one of its three mode flags set
OneModePerRule(rules) ==
    \A i \in 1..Len(rules) :
        <<rules[i].always_vpn, rules[i].never_vpn, rules[i].session_vpn>> \in RuleModes

\* C30: from a rule list with at most one rule per identifier and exactly one
\* mode flag per rule, every sequence of rule-cycle, tunnel-cycle,
\* forget-network and delete-tunnel operations leaves a rule list with at most
\* one rule per identifier and exactly one mode flag per rule.
C30_RulesStayWellFormed ==
    /\ OneRulePerIdentifier(network_rules) /\ OneModePerRule(network_rules)
    /\ OneRulePerIdentifier(config.network_rules) /\ OneModePerRule(config.network_rules)

\* a tunnel has just been deleted after an earlier operation, and the list
\* holds two rules, one of them a Session rule that lost its tunnel
C30_Witness ==
    /\ keys = MaxEdits
    /\ lastOp.op = "confirm_action"
    /\ lastOp.tunnel = "t2"
    /\ "t2" \notin hConfigs
    /\ Len(network_rules) = 2
    /\ \E i \in 1..2 : network_rules[i].session_vpn /\ network_rules[i].tunnel_name = NONE
    /\ \E i \in 1..2 : network_rules[i].tunnel_name = "t1"

\* handle_resume has run in the round after a round of handle_resume
ResumedAgain == lastOp.op = "handle_resume" /\ lastOp.after = "handle_resume"

\* C31: every exit of handle_resume resets the baseline of the power tracker,
\* so the round after a resume recovery, with no suspend in between, is not a
\* resume recovery again.
C31_OneRecoveryPerSuspend ==
    ResumedAgain => lastOp.suspended # 0

\* a round of run_monitoring_cycle follows, with no suspend, a resume recovery
\* that returned early because the network did not come up
C31_Witness ==
    /\ lastOp.op = "run_monitoring_cycle"
    /\ lastOp.after = "handle_resume"
    /\ lastOp.suspended = 0
    /\ lastOp.elapsed = 0

\* handle_resume has run in the round after a round of run_monitoring_cycle
ResumedAfterCycle == lastOp.op = "handle_resume" /\ lastOp.after = "run_monitoring_cycle"

\* C36: resume recovery is entered only after a suspend: a round of
\* run_monitoring_cycle that takes more than 15 s (helper timeouts, backoff
\* sleeps of the reconnect procedure) on a host that was never suspended is
\* not followed by a resume recovery.
C36_ResumeOnlyAfterSuspend ==
    ResumedAfterCycle => lastOp.suspended # 0

\* resume recovery has run on a host that was not suspended: the round before
\* took more than 15 s
C36_FalseResume ==
    /\ ResumedAfterCycle
    /\ lastOp.suspended = 0
    /\ lastOp.elapsed > 6 * CHECK_INTERVAL_SECS

\* the file holds a Session rule for the network id
HasSession(file, id) ==
    \E i \in 1..Len(Load(file).network_rules) :
        Load(file).network_rules[i].identifier = id /\ Load(file).network_rules[i].session_vpn

\* the round just run found the host on another network than the one
\* remembered, a network without a rule, and the network left had no Session
\* rule
MovedToNoRule ==
    /\ lastOp.op = "run_monitoring_cycle"
    /\ CurrentId # NONE
    /\ lastOp.before.last_network_id # CurrentId
    /\ FindRule(Load(lastOp.before.store), CurrentId) = NoRule
    /\ ~HasSession(lastOp.before.store, lastOp.before.last_network_id)

\* C32: when the active network changes to a network without a rule and the
\* previous network had no Session rule, the round issues neither connect nor
\* disconnect, leaves the tunnel and the persisted rules as they were, and
\* updates only the remembered network id and VPN status.
C32_NoRuleLeavesVpnAlone ==
    MovedToNoRule =>
        /\ \A i \in 1..Len(lastOp.trace) : lastOp.trace[i].verb \notin {"connect", "disconnect"}
        /\ hIface = lastOp.preIface
        /\ store = lastOp.before.store
        /\ reconnect_attempts = lastOp.before.reconnect_attempts
        /\ last_network_id = CurrentId
        /\ last_vpn_connected = (hIface # NONE)
        /\ last_vpn_interface = hIface

\* the host moved from home, which has an Always rule, to cafe, which has no
\* rule, with the tunnel up: the round left the tunnel up and remembers cafe
C32_Witness ==
    /\ MovedToNoRule
    /\ lastOp.before.last_network_id = "wifi:home"
    /\ FindRule(Load(store), "wifi:home").always_vpn
    /\ CurrentId = "wifi:cafe"
    /\ hIface = "t1"
    /\ last_network_id = "wifi:cafe"
    /\ last_vpn_connected

\* C39: killswitch-on is issued only for the interface of a tunnel that is
\* connected: enable() does not arm the kill switch when the status reports no
\* interface, so a KillSwitchOn applied while no tunnel is up does not leave
\* the switch armed.
C39_ArmsOnlyLiveTunnel ==
    /\ \A i \in Indices(lastOp.trace, "killswitch-on") : lastOp.trace[i].arg \in Tunnels
    /\ lastOp.op = "apply" /\ lastOp.action = "KillSwitchOn" /\ lastOp.preIface = NONE
         => ~hKs

\* the kill switch was toggled while no tunnel was up: enable() issued
\* killswitch-on for wg0, the helper ran it, and the switch is armed with no
\* tunnel, the in-memory flag set
C39_ArmedWithNoTunnel ==
    /\ lastOp.op = "apply"
    /\ lastOp.action = "KillSwitchOn"
    /\ lastOp.preIface = NONE
    /\ \E i \in Indices(lastOp.trace, "killswitch-on") :
         lastOp.trace[i].arg = "wg0" /\ lastOp.trace[i].res = "ok"
    /\ hKs
    /\ hIface = NONE
    /\ kill_switch_enabled

\* the kill-switch flags a config holds: the global one and one per tunnel
GlobalFlag(c) == c.kill_switch
TunnelFlags(c) == { <<c.known_tunnels[i].name, c.known_tunnels[i].kill_switch>>
                    : i \in 1..Len(c.known_tunnels) }

\* the flag the arm persists after success: the one of the interface the App
\* holds in vpn_status, else the global one
Persisted(c, c0, on) ==
    IF vpn_status.interface # NONE
    THEN <<vpn_status.interface, on>> \in TunnelFlags(c) /\ GlobalFlag(c) = GlobalFlag(c0)
    ELSE GlobalFlag(c) = on /\ TunnelFlags(c) = TunnelFlags(c0)

\* the step applies the pending change of that action
Applies(action) == lastOp'.op = "apply" /\ lastOp'.action = action

\* what the trace of the step tells: enable() returned Ok, disable() returned
\* Ok, an error status was shown
EnableOk == \E i \in Indices(lastOp'.trace, "killswitch-on") : lastOp'.trace[i].res = "ok"
DisableOk == \E i \in Indices(lastOp'.trace, "disable()") : lastOp'.trace[i].res = "ok"
ErrorShown == \E i \in Indices(lastOp'.trace, "set_status") : lastOp'.trace[i].arg = "Error"

\* the flags in memory and in the file are as they were (the refresh that ends
\* the step can prune tunnels from the file)
FlagsKept ==
    /\ kill_switch_enabled' = kill_switch_enabled
    /\ GlobalFlag(config') = GlobalFlag(config)
    /\ TunnelFlags(config') = TunnelFlags(config)
    /\ GlobalFlag(store') = GlobalFlag(store)
    /\ TunnelFlags(store') \subseteq TunnelFlags(store)

\* the flag in memory is on, and the flag of the active tunnel, else the global
\* flag, is on in the config and in the file
FlagsSet(on) ==
    /\ kill_switch_enabled' = on
    /\ Persisted(config', config, on)
    /\ GlobalFlag(store') = GlobalFlag(config')
    /\ TunnelFlags(store') \subseteq TunnelFlags(config')

\* C33: KillSwitchOn sets the in-memory flag and persists a flag (the active
\* tunnel's, else the global one) only when enable() returned Ok; when the
\* helper refuses or times out the in-memory flag, every per-tunnel flag and
\* the global flag are unchanged and an error status is shown.  KillSwitchOff
\* does the same with disable().
C33_FlagFollowsResult ==
    [][ /\ Applies("KillSwitchOn") =>
             IF EnableOk THEN FlagsSet(TRUE) ELSE FlagsKept /\ ErrorShown
        /\ Applies("KillSwitchOff") =>
             IF DisableOk THEN FlagsSet(FALSE) ELSE FlagsKept /\ ErrorShown
      ]_vars

\* KillSwitchOn was applied while sudo was blocked: the call timed out, the
\* flag stayed off, the global flag stayed off and the error is shown
C33_Witness ==
    /\ lastOp.op = "apply"
    /\ lastOp.action = "KillSwitchOn"
    /\ \E i \in Indices(lastOp.trace, "killswitch-on") : lastOp.trace[i].res = "timeout"
    /\ \E i \in Indices(lastOp.trace, "set_status") : lastOp.trace[i].arg = "Error"
    /\ ~kill_switch_enabled
    /\ ~config.kill_switch
    /\ ~hKs

\* the tunnel and the mode flags of the rule a list holds for an identifier
TunnelOf(rules, id) ==
    IF RuleIdx(rules, id) = 0 THEN NONE ELSE rules[RuleIdx(rules, id)].tunnel_name
ModeOf(rules, id) ==
    IF RuleIdx(rules, id) = 0 THEN <<TRUE, FALSE, FALSE>>
    ELSE <<rules[RuleIdx(rules, id)].always_vpn, rules[RuleIdx(rules, id)].never_vpn,
           rules[RuleIdx(rules, id)].session_vpn>>

\* the tunnel after t in the list, the first one after the last and for a
\* tunnel that is not in the list
NextTunnel(t) ==
    LET at == {i \in 1..Len(tunnels) : tunnels[i] = t}
    IN  IF at = {} THEN tunnels[1]
        ELSE LET i == CHOOSE i \in at : \A j \in at : i <= j
             IN  IF i = Len(tunnels) THEN tunnels[1] ELSE tunnels[i + 1]

\* the step handled a 't' press on the network id: the rule keeps its mode and
\* takes the next tunnel; a Reconnect to that tunnel is pending, scheduled by
\* this step, iff the network is active and the mode is Always or Session
TunnelPress ==
    LET id == lastOp'.key.network
        mode == ModeOf(network_rules, id)
        new == NextTunnel(TunnelOf(network_rules, id))
        reconnect == lastOp'.op = "schedule" /\ lastOp'.action = "Reconnect"
                     /\ lastOp'.tunnel = new
                     /\ pending_change'.action = "Reconnect"
                     /\ pending_change'.tunnel_name = new
                     /\ pending_change'.id = Len(changes')
                     /\ Len(changes') = Len(changes) + 1
    IN  /\ RuleIdx(network_rules', id) # 0
        /\ ModeOf(network_rules', id) = mode
        /\ TunnelOf(network_rules', id) = new
        /\ config'.network_rules = network_rules'
        /\ IF lastOp'.key.active /\ (mode[1] \/ mode[3])
           THEN reconnect
           ELSE pending_change' = pending_change /\ changes' = changes

RECURSIVE Presses(_, _, _)
Presses(rules, n, k) ==
    IF k = 0 THEN rules ELSE Presses(cycle_network_tunnel(rules, n).rules, n, k - 1)

\* after a first press, as many presses as there are tunnels bring the rule of
\* every network back to the same tunnel
RoundTrip ==
    phase # "boot" /\ Len(tunnels) > 0 =>
        \A i \in 1..Len(networks) :
            LET id == identifier(networks[i])
                once == Presses(network_rules, networks[i], 1)
            IN  TunnelOf(Presses(once, networks[i], Len(tunnels)), id) = TunnelOf(once, id)

\* C34: a tunnel-cycle press keeps the rule's mode (an Always rule when there
\* was none), moves the rule to the next tunnel in list order, wrapping around,
\* so that len(tunnels) presses return to the same tunnel, and schedules a
\* Reconnect to the new tunnel iff the network is active and the mode is Always
\* or Session.
C34_TunnelCycle ==
    /\ [][lastOp'.key.name = "t" => TunnelPress]_vars
    /\ []RoundTrip

\* 't' was pressed twice on the active network, whose rule is a Never rule:
\* the rule is back on its tunnel and nothing was scheduled
C34_Witness ==
    /\ keys = 2
    /\ lastOp.key.name = "t"
    /\ lastOp.key.active
    /\ lastOp.key.was = "Never"
    /\ lastOp.op = "idle"
    /\ TunnelOf(network_rules, lastOp.key.network) = "t1"
    /\ changes = <<>>

\* the slot and the countdown agree
SlotAgrees ==
    /\ is_some(pending_change) <=> countdown_start # NoInstant
    /\ ~is_some(pending_change) => countdown_seconds = 0
    /\ countdown_seconds <= 4

\* the step leaves the same change in the slot
StaysPending ==
    /\ is_some(pending_change)
    /\ pending_change' = pending_change
    /\ Len(changes') = Len(changes)

\* C35: in every reachable state of the TUI pending_change is present iff
\* countdown_start is present, countdown_seconds is 0 whenever the slot is
\* empty, countdown_seconds never exceeds 4, and while one change stays pending
\* countdown_seconds never increases.
C35_SlotAndCountdown ==
    /\ []SlotAgrees
    /\ [][StaysPending => countdown_seconds' <= countdown_seconds]_vars

\* a change has been pending for two seconds and the display has counted down
\* to 2; it replaced another
C35_Witness ==
    /\ is_some(pending_change)
    /\ countdown_start # NoInstant
    /\ as_secs(countdown_start) = 2
    /\ countdown_seconds = 2
    /\ Len(changes) = 2
    /\ changes[1].why = "replaced"

\* a file that is there and does not read or does not parse
Unloadable(file) == file.exists /\ ~(Reads(file) /\ Parses(file.content))

\* C37: AppConfig::load leaves the file that is there as it was, and returns
\* the default config when the file does not read or does not parse
C37_LoadLeavesFile ==
    [][lastOp'.op = "load" =>
         /\ store.exists => store' = store
         /\ Unloadable(store) => config' = DefaultConfig]_vars

\* a load has found a file with a rule and a tunnel info in it, its last
\* table half written, and has left the file of the default config
C37_FileReplaced ==
    /\ lastOp.op = "load"
    /\ Unloadable(lastOp.file)
    /\ lastOp.file.utf8
    /\ lastOp.file.content.network_rules # <<>>
    /\ store = File(save(DefaultConfig))
    /\ store.content.network_rules = <<>>
    /\ config = DefaultConfig

\* C40: at the end of every round of the loop, last_vpn_connected and
\* last_vpn_interface are the status of the tunnel at that moment, also when
\* the liveness check has run reconnect_vpn.
C40_LastStatusCurrent ==
    Cycled => /\ last_vpn_connected = (hIface # NONE)
              /\ last_vpn_interface = hIface

\* the liveness check has found the tunnel down, reconnect_vpn has brought it
\* up, and the engine remembers it as not connected
C40_StaleAfterReconnect ==
    /\ Cycled
    /\ health_check_counter = 0
    /\ lastOp.preIface = NONE
    /\ Attempts(lastOp.trace) # {}
    /\ hIface # NONE
    /\ ~last_vpn_connected
    /\ last_vpn_interface = NONE

NetworkIds == { identifier(NetworkInfo(Ssids[i], TRUE)) : i \in 1..Len(Ssids) }

\* the step is a round of the daemon
ByEngine == lastOp'.op = "run_monitoring_cycle"

\* the network whose rule the user changes in the step, if the step is a key
Edited == IF lastOp'.key # NoKey THEN {lastOp'.key.network} ELSE {}

\* a step of the TUI leaves in the file the rules of the networks the user
\* does not edit in it
TuiKeepsOthers ==
    \A id \in NetworkIds \ Edited : FindRule(store', id) = FindRule(store, id)

\* a step of the daemon changes the file only by removing a Session rule
EngineOnlyClears ==
    \A id \in NetworkIds :
        \/ FindRule(store', id) = FindRule(store, id)
        \/ FindRule(store, id).session_vpn /\ FindRule(store', id) = NoRule

\* C38: with the daemon and the TUI on one file, a save of the TUI does not
\* bring back a Session rule the daemon removed, and a save of the daemon does
\* not lose a rule the TUI saved: each changes in the file only the rule it
\* is changing.
C38_NoRuleLostOrRevived ==
    [][IF ByEngine THEN EngineOnlyClears ELSE TuiKeepsOthers]_vars

\* the daemon has left the home network and removed its Session rule; the
\* user's only key, 'r' on the other network, has saved the rule again
C38_SessionRuleRevived ==
    /\ last_network_id = "wifi:cafe"
    /\ keys = 1
    /\ lastOp.key.name = "r"
    /\ lastOp.key.network = "wifi:cafe"
    /\ FindRule(store, "wifi:home").session_vpn

====
